---- MODULE Spec2Model ----
(***************************************************************************)
(* A model of the article checker worker (r-log/cloudflare-worker):        *)
(*   - ArticleValidator.validateArticle and DuplicationChecker             *)
(*     (src/src/core/articleValidator.ts),                                 *)
(*   - the in-memory ArticleCheckQueue and the webhook handler             *)
(*     (src/src/core/queue.ts, src/src/handlers/http.ts),                  *)
(*   - FactChecker.verifyFacts (src/unnamed/part_000).                     *)
(* Each part has its own specification over its own variables; the other   *)
(* variables stay at their initial values.                                 *)
(***************************************************************************)
EXTENDS Integers, Sequences, FiniteSets, TLC

VARIABLES
  \* ---- validateArticle (one run) ----
  vpc,            \* position of the run: "findExisting" | "fetch" | "compare" | "structural" | "done"
  content,        \* the submitted document (a sequence of lines)
  filename,       \* the submitted filename (path components)
  corpus,         \* the corpus listing received, or <<>> before it arrives
  raised,         \* the message of the error a stage raised, or ""
  existingFiles,  \* candidate paths returned by findExistingArticles
  idx,            \* index of the candidate being examined
  fetched,        \* paths whose content was fetched, in order
  compared,       \* paths handed to the comparison oracle, in order
  replies,        \* the comparison results received, in order
  responses,      \* the answers of the comparison oracle as they arrived, in order
  result,         \* the ArticleValidationResult under construction
  stages,         \* stages entered by the run, in order
  thrown,         \* the error validateArticle propagated to its caller, or ""
  \* ---- the job queue (module state of queue.ts) and the webhook handlers ----
  queueState,     \* [currentJob, queue]
  lockTimestamp,  \* the lock: the time it was taken, 0 for null
  now,            \* Date.now()
  nextId,         \* the next job id (uuidv4 never repeats)
  activated,      \* ids of the jobs that became the current job, in order
  finished,       \* the jobs completeJob closed, in order
  callResult,     \* what the last addJob/completeJob call did
  hpc,            \* per request: position of handleHttpRequest
  hjob,           \* per request: the job addJob returned
  \* ---- one call of FactChecker.verifyFacts ----
  fpc,            \* position: "idle", "request" (an oracle request is in flight), "wait", "done"
  extractedInfo,  \* verifyFacts' argument: [keyStatements, entities, searchQueries, technicalDetails]
  chunks,         \* the chunks built from extractedInfo
  chunkIdx,       \* the chunk being verified (1-based)
  attempt,        \* verifyFactsChunk's attempt counter
  lastError,      \* verifyFactsChunk's lastError ("" for null)
  waits,          \* the delays verifyFactsChunk slept for the current chunk: <<base, jitter>>
  requests,       \* the chunk index of every oracle request sent, in order
  accepted,       \* the valid oracle reply of every verified chunk, as received
  chunkResults,   \* results: the processed result of every verified chunk
  verdict,        \* the FactCheckResult verifyFacts returned
  fthrown,        \* the error verifyFacts threw ("" for none)
  \* ---- one KeywordExtractor (the rate-limited call adapter) and its caller ----
  apc,                    \* position of extract: "idle" | "loop" | "fetch"
  clock,                  \* Date.now()
  lastRequestTime,        \* field: time of the last request sent
  requestsThisMinute,     \* field: requests counted in the current window
  inputTokensThisMinute,  \* field: estimated input tokens counted in the current window
  lastMinuteReset,        \* field: start of the current window
  retryAttempt,           \* callClaudeWithRetry's local attempt
  callError,              \* callClaudeWithRetry's local lastError ("" for null)
  startTime,              \* callClaudeWithRetry's local startTime
  estimatedInputTokens,   \* callClaudeWithRetry's local estimatedInputTokens
  backoffs,               \* the delays the current call slept after failed attempts: <<base, jitter>>
  held,                   \* the rate-limit waits of the current call: <<what for, waitTime>>
  outcome,                \* how the extract call that just ended did: "" | "ok" | the error message
  \* ---- SourceSearcher: one call of calculateReliability, one call of findSources ----
  probe,          \* calculateReliability's argument: [domain, age, description]
  scoring,        \* the values of score after each stage, <<>> before the call
  spc,            \* position of findSources: "idle" | "search" | "done"
  queryCount,     \* the number of queries in findSources' argument searchQueries
  answers,        \* the result lists the search service returned, in order
  allSources,     \* findSources' local allSources
  seenUrls,       \* findSources' local seenUrls
  contributions,  \* the number of sources each answered query added to allSources
  sthrown,        \* the error findSources threw ("" for none)
  \* ---- one call of FrontMatterValidator.validateFrontMatter ----
  frontMatterArg,    \* the argument
  frontMatterResult, \* the value returned: [isValid, errors], or NotValidated before the call
  \* ---- one call of performArticleCheck ----
  ppc,            \* position: "idle" | "fetchFiles" | "fetchContent" | "validate" | "done"
  prFiles,        \* the pull request's file list as fetchPRFiles returns it
  pcalls,         \* the awaited calls made so far, in order
  praised,        \* the message of the error an awaited call raised, or ""
  validation,     \* what validateArticle returned: [defined, isValid, isDuplicate]
  jobResult,      \* the JobResult returned, NoJobResult before
  pthrown         \* the error performArticleCheck propagated to its caller, or ""

qvars == <<queueState, lockTimestamp, now, nextId, activated, finished, callResult, hpc, hjob>>

vvars == <<vpc, content, filename, corpus, raised, existingFiles, idx, fetched, compared, replies,
           responses, result, stages, thrown>>

fvars == <<fpc, extractedInfo, chunks, chunkIdx, attempt, lastError, waits, requests, accepted,
           chunkResults, verdict, fthrown>>

avars == <<apc, clock, lastRequestTime, requestsThisMinute, inputTokensThisMinute,
           lastMinuteReset, retryAttempt, callError, startTime,
           estimatedInputTokens, backoffs, held, outcome>>

svars == <<probe, scoring, spc, queryCount, answers, allSources, seenUrls, contributions,
           sthrown>>

mvars == <<frontMatterArg, frontMatterResult>>

pvars == <<ppc, prFiles, pcalls, praised, validation, jobResult, pthrown>>

\* what the queue's and the handlers' steps leave alone
outsideQueue == <<vvars, fvars, avars, svars, mvars, pvars>>

\* what the validator's steps leave alone
outsideValidator == <<qvars, fvars, avars, svars, mvars, pvars>>

\* what the fact checker's steps leave alone
outsideFacts == <<vvars, qvars, avars, svars, mvars, pvars>>

\* what the call adapter's steps leave alone
outsideAdapter == <<vvars, qvars, fvars, svars, mvars, pvars>>

\* what the source searcher's steps leave alone
outsideSearcher == <<vvars, qvars, fvars, avars, mvars, pvars>>

\* what the front matter validator's step leaves alone
outsideFrontMatter == <<vvars, qvars, fvars, avars, svars, pvars>>

\* what performArticleCheck's steps leave alone
outsideCheck == <<vvars, qvars, fvars, avars, svars, mvars>>

vars == <<vvars, qvars, fvars, avars, svars, mvars, pvars>>

-----------------------------------------------------------------------------
(* Generic helpers *)

Last(s) == s[Len(s)]

Range(s) == {s[i] : i \in 1..Len(s)}

RECURSIVE SelectSeqIdx(_, _, _)
\* the elements of s at the indices in keep, in order (Array.prototype.filter)
SelectSeqIdx(s, keep, i) ==
  IF i > Len(s) THEN <<>>
  ELSE (IF i \in keep THEN <<s[i]>> ELSE <<>>) \o SelectSeqIdx(s, keep, i + 1)

\* all sequences over S without repetition, of length at most n
RECURSIVE DistinctSeqs(_, _)
DistinctSeqs(S, n) ==
  IF n = 0 THEN {<<>>}
  ELSE LET shorter == DistinctSeqs(S, n - 1)
       IN shorter \cup {Append(s, x) : s \in shorter, x \in S}

NoRepeat(t) == \A i, j \in 1..Len(t) : i # j => t[i] # t[j]

\* an error message: a fixed text followed by a detail (string concatenation)
Msg(text, detail) == <<text, detail>>

NoError == Msg("", "")

-----------------------------------------------------------------------------
(* Documents.  A document is a sequence of lines; a line is one of          *)
(*   delim  "---"                                                           *)
(*   yaml   the lines of a front matter block, with what yaml.parse makes   *)
(*          of them                                                         *)
(*   h2     "## <name>"                                                     *)
(*   text   a non-blank line without '#'                                    *)
(*   blank  an empty line                                                   *)
(*   hash   a non-blank line holding a '#' that is no level-2 heading       *)

REQUIRED_SECTIONS == <<"Summary", "Attackers", "Losses", "Timeline", "Security Failure Causes">>

\* A date is a string; each character is a digit "d", a dash "-" or another "x".
GoodDate == <<"d","d","d","d","-","d","d","-","d","d">>
BadDate == <<"d","d","-","d","d","-","d","d","d","d">>

\* /^\d{4}-\d{2}-\d{2}$/.test(date)
DateMatches(date) ==
  /\ Len(date) = 10
  /\ \A i \in 1..10 : date[i] = (IF i \in {5, 8} THEN "-" ELSE "d")

\* Front matter values as yaml.parse returns them.  kind: "throws" (yaml.parse
\* raises), "null" (a falsy value), "scalar" (a truthy non-object) or "object".
FrontMatter(date, te, et, at, title, loss) ==
  [kind |-> "object", date |-> date, targetEntities |-> te, entityTypes |-> et,
   attackTypes |-> at, title |-> title, loss |-> loss]

YamlThrows == [kind |-> "throws", date |-> <<>>, targetEntities |-> FALSE, entityTypes |-> "undefined",
               attackTypes |-> FALSE, title |-> FALSE, loss |-> "undefined"]
YamlNull == [YamlThrows EXCEPT !.kind = "null"]
YamlScalar == [YamlThrows EXCEPT !.kind = "scalar"]

ValidFM == FrontMatter(GoodDate, TRUE, "array", TRUE, TRUE, "number")

Delim == [k |-> "delim"]
Yaml(y) == [k |-> "yaml", y |-> y]
H2(n) == [k |-> "h2", name |-> n]
Text == [k |-> "text"]
Blank == [k |-> "blank"]
Hash == [k |-> "hash"]

-----------------------------------------------------------------------------
(* Structural validation (ArticleValidator) *)

Min(S) == CHOOSE x \in S : \A y \in S : x <= y
Max(S) == CHOOSE x \in S : \A y \in S : x >= y

\* the closing delimiter found by /^---\n([\s\S]*?)\n---/, or 0
ClosingDelim(doc) ==
  LET js == {j \in 3..Len(doc) : doc[j].k = "delim"}
  IN IF Len(doc) >= 3 /\ doc[1].k = "delim" /\ js # {} THEN Min(js) ELSE 0

\* yaml.parse of the lines of a front matter block
YamlParse(lines) ==
  LET ys == {i \in 1..Len(lines) : lines[i].k = "yaml"}
  IN IF ys # {} THEN lines[Min(ys)].y
     ELSE IF \A i \in 1..Len(lines) : lines[i].k = "blank" THEN YamlNull
     ELSE YamlScalar

parseFrontMatter(doc) ==
  LET j == ClosingDelim(doc)
      fm == YamlParse(SubSeq(doc, 2, j - 1))
  IN IF j = 0
       THEN [frontMatter |-> YamlNull,
             errors |-> <<Msg("Front matter not found or invalid format", "")>>]
     ELSE IF fm.kind = "throws"
       THEN [frontMatter |-> YamlNull,
             errors |-> <<Msg("Failed to parse front matter: ", "yaml error")>>]
     ELSE [frontMatter |-> fm, errors |-> <<>>]

\* if (frontMatter): a truthy value
Truthy(fm) == fm.kind \in {"scalar", "object"}

\* mutant: loss is not checked
validateFrontMatter_NoLoss(fm) ==
  LET errors ==
        (IF ~DateMatches(fm.date) THEN <<Msg("Date must be in YYYY-MM-DD format", "")>> ELSE <<>>)
        \o (IF ~fm.targetEntities THEN <<Msg("target-entities is required", "")>> ELSE <<>>)
        \o (IF fm.entityTypes # "array" THEN <<Msg("entity-types must be a non-empty array", "")>> ELSE <<>>)
        \o (IF ~fm.attackTypes THEN <<Msg("attack-types is required", "")>> ELSE <<>>)
        \o (IF ~fm.title THEN <<Msg("title is required", "")>> ELSE <<>>)
  IN [isValid |-> Len(errors) = 0, errors |-> errors]

validateFrontMatter(fm) ==
  LET errors ==
        (IF ~DateMatches(fm.date) THEN <<Msg("Date must be in YYYY-MM-DD format", "")>> ELSE <<>>)
        \o (IF ~fm.targetEntities THEN <<Msg("target-entities is required", "")>> ELSE <<>>)
        \o (IF fm.entityTypes # "array" THEN <<Msg("entity-types must be a non-empty array", "")>> ELSE <<>>)
        \o (IF ~fm.attackTypes THEN <<Msg("attack-types is required", "")>> ELSE <<>>)
        \o (IF ~fm.title THEN <<Msg("title is required", "")>> ELSE <<>>)
        \o (IF fm.loss # "number" THEN <<Msg("loss must be a number", "")>> ELSE <<>>)
  IN [isValid |-> Len(errors) = 0, errors |-> errors]

\* String.prototype.trim on a sequence of lines: leading and trailing blank lines go
Trim(lines) ==
  LET nb == {i \in 1..Len(lines) : lines[i].k # "blank"}
  IN IF nb = {} THEN <<>> ELSE SubSeq(lines, Min(nb), Max(nb))

\* content.replace(/^---\n[\s\S]*?\n---\n/, '').trim()
WithoutFrontMatter(doc) ==
  LET js == {j \in 3..(Len(doc) - 1) : doc[j].k = "delim"}
  IN IF Len(doc) >= 4 /\ doc[1].k = "delim" /\ js # {}
       THEN Trim(SubSeq(doc, Min(js) + 1, Len(doc)))
       ELSE Trim(doc)

\* the lines between the heading at i and the next level-2 heading (or the end)
BodyOf(lines, i) ==
  LET nxt == {j \in (i + 1)..Len(lines) : lines[j].k = "h2"}
  IN SubSeq(lines, i + 1, IF nxt = {} THEN Len(lines) ELSE Min(nxt) - 1)

\* the headings /(?:^|\n)## ([^\n]+)([^#]*?)(?=\n## |$)/g matches: a heading whose
\* body holds a '#' before the next level-2 heading is not matched
SectionMatches(lines) ==
  {i \in 1..Len(lines) :
     /\ lines[i].k = "h2"
     /\ \A j \in 1..Len(BodyOf(lines, i)) : BodyOf(lines, i)[j].k # "hash"}

\* section.replace(/## [^\n]+\n/, '').trim(): with no line after the heading the
\* replace finds no newline and the heading itself stays as the content
SectionContent(lines, i) ==
  LET body == BodyOf(lines, i)
  IN IF Len(body) = 0 THEN "heading"
     ELSE IF Trim(body) = <<>> THEN "" ELSE "text"

\* sections[name] = content on an insertion-ordered record
SetSection(secs, name, c) ==
  IF \E i \in 1..Len(secs) : secs[i].name = name
    THEN [i \in 1..Len(secs) |-> IF secs[i].name = name THEN [name |-> name, content |-> c] ELSE secs[i]]
    ELSE Append(secs, [name |-> name, content |-> c])

RECURSIVE CollectSections(_, _, _, _)
CollectSections(lines, matches, i, secs) ==
  IF i > Len(lines) THEN secs
  ELSE CollectSections(lines, matches, i + 1,
         IF i \in matches THEN SetSection(secs, lines[i].name, SectionContent(lines, i)) ELSE secs)

extractSections(doc) ==
  LET lines == WithoutFrontMatter(doc)
      matches == SectionMatches(lines)
  IN IF matches = {}
       THEN [sections |-> <<>>, errors |-> <<Msg("No sections found in the article", "")>>]
       ELSE [sections |-> CollectSections(lines, matches, 1, <<>>), errors |-> <<>>]

\* sections[name], "" when undefined (both are falsy)
SectionOf(secs, name) ==
  IF \E i \in 1..Len(secs) : secs[i].name = name
    THEN secs[CHOOSE i \in 1..Len(secs) : secs[i].name = name].content
    ELSE ""

-----------------------------------------------------------------------------
(* Duplication check (DuplicationChecker) *)

\* similarity scores are held in hundredths
SimilarityThreshold == 80

Undefined == ""

NoComparison == [defined |-> FALSE, hasNewInformation |-> FALSE, similarityScore |-> 0]

Comparison(hasNew, score) ==
  [defined |-> TRUE, hasNewInformation |-> hasNew, similarityScore |-> score]

NoDuplicationCheck ==
  [defined |-> FALSE, isDuplicate |-> FALSE, existingFilePath |-> Undefined,
   comparisonResult |-> NoComparison]

DuplicationCheckResult(isDup, path, cmp) ==
  [defined |-> TRUE, isDuplicate |-> isDup, existingFilePath |-> path, comparisonResult |-> cmp]

\* filename.split('/').pop() || filename
BaseFilename(f) == IF Last(f) # "" THEN <<Last(f)>> ELSE f

\* mutant: the listing is not filtered by the base filename
MatchingPaths_NoFilter(files, f) == [i \in 1..Len(files) |-> files[i].path]

\* files.filter(file => file.name === baseFilename).map(file => file.path)
MatchingPaths(files, f) ==
  LET keep == {i \in 1..Len(files) : files[i].name = BaseFilename(f)}
      kept == SelectSeqIdx(files, keep, 1)
  IN [i \in 1..Len(kept) |-> kept[i].path]

\* mutant: the threshold is inclusive
IsDuplicateOutcome_Inclusive(c) ==
  ~c.hasNewInformation /\ c.similarityScore >= SimilarityThreshold

\* !hasNewInformation && similarityScore && similarityScore > 0.8
IsDuplicateOutcome(c) ==
  ~c.hasNewInformation /\ c.similarityScore # 0 /\ c.similarityScore > SimilarityThreshold

\* the decision of one loop iteration of checkDuplication
Decision(c) ==
  IF IsDuplicateOutcome(c) THEN "duplicate"
  ELSE IF c.hasNewInformation THEN "newInformation"
  ELSE "continue"

\* A JSON value: its typeof (with "array" for Array.isArray) and, for a boolean (0 or 1)
\* or a number (in hundredths), its value.
JBool(b) == [t |-> "boolean", v |-> IF b THEN 1 ELSE 0]
JNum(n) == [t |-> "number", v |-> n]
JStr == [t |-> "string", v |-> 0]
JArr == [t |-> "array", v |-> 0]
JUndef == [t |-> "undefined", v |-> 0]

\* What JSON.parse makes of the cleaned message text.  kind: "syntaxError" (JSON.parse
\* raises), "null", "scalar", "array" or "object"; the three fields are those read at
\* lines 96-98, undefined on a value that is no object.
Json(kind, hasNew, differences, score) ==
  [kind |-> kind, hasNewInformation |-> hasNew, differences |-> differences,
   similarityScore |-> score]

NotAnObject(kind) == Json(kind, JUndef, JUndef, JUndef)

\* An answer of the oracle: response.ok, whether data.choices[0].message.content exists,
\* whether the text is wrapped in a markdown code fence, and the text's JSON reading.
OracleResponse(ok, choices, fenced, json) ==
  [ok |-> ok, choices |-> choices, fenced |-> fenced, json |-> json]

ApiErrorText == "OpenRouter API error"
ParseErrorText == "Failed to parse OpenRouter response"
TypeErrorText == "TypeError"

\* mutant: the structure of the parsed reply is not validated
compareWithOpenRouter_Unchecked(response) ==
  LET json == response.json
  IN IF ~response.ok THEN [threw |-> ApiErrorText, result |-> NoComparison]
     ELSE IF ~response.choices THEN [threw |-> TypeErrorText, result |-> NoComparison]
     ELSE IF json.kind \in {"syntaxError", "null"}
       THEN [threw |-> ParseErrorText, result |-> NoComparison]
     ELSE [threw |-> "",
           result |-> Comparison(json.hasNewInformation.v = 1, json.similarityScore.v)]

\* compareWithOpenRouter for the answer the fetch resolved with: the error it throws, or
\* the ComparisonResult it returns.  The fence is stripped before JSON.parse (line 90).
compareWithOpenRouter(response) ==
  LET json == response.json
  IN IF ~response.ok THEN [threw |-> ApiErrorText, result |-> NoComparison]
     ELSE IF ~response.choices THEN [threw |-> TypeErrorText, result |-> NoComparison]
     ELSE IF json.kind \in {"syntaxError", "null"}
       THEN [threw |-> ParseErrorText, result |-> NoComparison]
     ELSE IF \/ json.hasNewInformation.t # "boolean"
             \/ json.differences.t # "array"
             \/ json.similarityScore.t # "number"
       THEN [threw |-> ParseErrorText, result |-> NoComparison]
     ELSE [threw |-> "",
           result |-> Comparison(json.hasNewInformation.v = 1, json.similarityScore.v)]

-----------------------------------------------------------------------------
(* The orchestrator (ArticleValidator.validateArticle) *)

NoFactCheck == [defined |-> FALSE, confidence |-> 0]

InitialResult ==
  [isValid |-> FALSE, errors |-> <<>>, warnings |-> <<>>, frontMatterValid |-> FALSE,
   sectionsValid |-> FALSE, missingRequiredSections |-> <<>>, additionalSections |-> <<>>,
   duplicationCheck |-> NoDuplicationCheck, factCheck |-> NoFactCheck]

\* mutant: the errors list is not consulted
FinalValidity_IgnoreErrors(r) == r.frontMatterValid /\ r.sectionsValid

\* result.isValid = result.frontMatterValid && result.sectionsValid && result.errors.length === 0
FinalValidity(r) == r.frontMatterValid /\ r.sectionsValid /\ Len(r.errors) = 0

Finalize(r) == [r EXCEPT !.isValid = FinalValidity(r)]

\* mutant: the catch block rethrows
Caught_Rethrow(r, message) == [result |-> r, thrown |-> message]

\* the catch block of validateArticle, then the final assignment
Caught(r, message) ==
  [result |-> Finalize([r EXCEPT !.errors = Append(@, Msg("Internal validation error: ", message))]),
   thrown |-> ""]

\* mutant: the duplicate branch records its error but does not return
DuplicateVerdict_NoReturn(r, dup) ==
  [r EXCEPT !.duplicationCheck = dup,
            !.frontMatterValid = TRUE,
            !.errors = <<Msg("Article is a duplicate of existing file: ", dup.existingFilePath),
                         Msg("No sections found in the article", "")>>]

\* the duplicate branch: the result is returned as it is
DuplicateVerdict(r, dup) ==
  [r EXCEPT !.duplicationCheck = dup,
            !.errors = <<Msg("Article is a duplicate of existing file: ", dup.existingFilePath)>>]

RequiredIdx(secs) == {i \in 1..Len(REQUIRED_SECTIONS) : SectionOf(secs, REQUIRED_SECTIONS[i]) = ""}

AdditionalIdx(secs) == {i \in 1..Len(secs) : secs[i].name \notin Range(REQUIRED_SECTIONS)}

EmptyIdx(secs) == {i \in 1..Len(secs) : secs[i].content = ""}

EmptyErrors(secs) ==
  LET e == SelectSeqIdx(secs, EmptyIdx(secs), 1)
  IN [i \in 1..Len(e) |-> Msg("Section is empty: ", e[i].name)]

\* lines 397-432: front matter, sections, required and additional sections
StructuralValidation(r, doc) ==
  LET p == parseFrontMatter(doc)
      v == validateFrontMatter(p.frontMatter)
      x == extractSections(doc)
      missing == SelectSeqIdx(REQUIRED_SECTIONS, RequiredIdx(x.sections), 1)
      addl == SelectSeqIdx(x.sections, AdditionalIdx(x.sections), 1)
  IN [r EXCEPT
        !.frontMatterValid = IF Truthy(p.frontMatter) THEN v.isValid ELSE @,
        !.errors = @ \o p.errors
                     \o (IF Truthy(p.frontMatter) THEN v.errors ELSE <<>>)
                     \o x.errors \o EmptyErrors(x.sections),
        !.missingRequiredSections = @ \o missing,
        !.additionalSections = @ \o [i \in 1..Len(addl) |-> addl[i].name],
        !.sectionsValid = Len(missing) = 0]

StructuralStages(doc) ==
  <<"parseFrontMatter">>
  \o (IF Truthy(parseFrontMatter(doc).frontMatter) THEN <<"validateFrontMatter">> ELSE <<>>)
  \o <<"extractSections">>

\* the run after checkDuplication returned "not a duplicate"
NotDuplicate(r, dup, doc) ==
  Finalize(StructuralValidation([r EXCEPT !.duplicationCheck = dup], doc))

-----------------------------------------------------------------------------
(* Inputs of a validateArticle run *)

MaxCorpus == 2

RECURSIVE SectionsWith(_, _)
\* a document body: one heading per name, each followed by a line of text
SectionsWith(names, i) ==
  IF i > Len(names) THEN <<>> ELSE <<H2(names[i]), Text>> \o SectionsWith(names, i + 1)

FullBody == SectionsWith(REQUIRED_SECTIONS, 1)

FrontMatterBlock(y) == <<Delim, Yaml(y), Delim, Blank>>

Docs ==
  { FrontMatterBlock(ValidFM) \o FullBody,
    FrontMatterBlock(ValidFM) \o FullBody \o <<H2("References"), Text>>,
    FrontMatterBlock(ValidFM) \o <<H2("Notes"), Blank>> \o FullBody,
    FullBody,
    FrontMatterBlock(YamlThrows) \o FullBody,
    <<Delim, Blank, Delim, Blank>> \o FullBody,
    FrontMatterBlock(FrontMatter(BadDate, TRUE, "array", TRUE, TRUE, "string")) \o FullBody,
    FrontMatterBlock(ValidFM) \o SectionsWith(<<"Summary", "Losses">>, 1),
    FrontMatterBlock(ValidFM) \o <<H2("Summary"), Blank>> \o SectionsWith(<<"Attackers", "Losses", "Timeline", "Security Failure Causes">>, 1),
    FrontMatterBlock(ValidFM) \o <<Text, Text>> }

Filenames == { <<"content", "incidents", "a.md">>, <<"b.md">> }

Entries ==
  { [name |-> <<"a.md">>, path |-> "incidents/a.md"],
    [name |-> <<"a.md">>, path |-> "archive/a.md"],
    [name |-> <<"c.md">>, path |-> "incidents/c.md"] }

Listings == {l \in DistinctSeqs(Entries, MaxCorpus) : NoRepeat(l)}

Scores == {0, 80, 81, 95}

ComparisonReplies == {Comparison(h, sc) : h \in BOOLEAN, sc \in Scores}

\* the errors compareWithOpenRouter raises: an HTTP error, an answer without choices, or
\* a reply that is not the expected JSON object
ComparisonErrors == {ApiErrorText, TypeErrorText, ParseErrorText}

\* answers carrying the expected object, bare or fenced
WellFormedResponses ==
  {OracleResponse(TRUE, TRUE, fenced, Json("object", JBool(c.hasNewInformation), JArr,
                                           JNum(c.similarityScore))) :
     fenced \in BOOLEAN, c \in ComparisonReplies}

\* an HTTP error, an answer without choices, and texts that are not the expected object
MalformedResponses ==
  {OracleResponse(FALSE, FALSE, FALSE, NotAnObject("syntaxError")),
   OracleResponse(TRUE, FALSE, FALSE, NotAnObject("syntaxError"))}
  \cup {OracleResponse(TRUE, TRUE, FALSE, NotAnObject(kind)) :
          kind \in {"syntaxError", "null", "scalar", "array"}}
  \cup {OracleResponse(TRUE, TRUE, FALSE, Json("object", h, d, sc)) :
          <<h, d, sc>> \in ({JBool(FALSE), JStr, JUndef} \X {JArr, JStr, JUndef}
                             \X {JNum(95), JStr, JUndef})
                            \ {<<JBool(FALSE), JArr, JNum(95)>>}}

OracleResponses == WellFormedResponses \cup MalformedResponses

-----------------------------------------------------------------------------
(* One run of validateArticle, a step per awaited call *)

VInit ==
  /\ vpc = "findExisting"
  /\ content \in Docs
  /\ filename \in Filenames
  /\ corpus = <<>>
  /\ raised = ""
  /\ existingFiles = <<>>
  /\ idx = 0
  /\ fetched = <<>>
  /\ compared = <<>>
  /\ replies = <<>>
  /\ responses = <<>>
  /\ result = InitialResult
  /\ stages = <<"checkDuplication", "findExistingArticles">>
  /\ thrown = ""

\* a stage raised an error: checkDuplication rethrows it, validateArticle catches it
Raise(message) ==
  /\ vpc' = "done"
  /\ result' = Caught(result, message).result
  /\ thrown' = Caught(result, message).thrown
  /\ raised' = message
  /\ UNCHANGED <<content, filename, corpus, existingFiles, idx>>

\* checkDuplication returned dup (not a duplicate): the rest of the run is synchronous
ReturnNotDuplicate(dup) ==
  /\ vpc' = "done"
  /\ result' = NotDuplicate(result, dup, content)
  /\ stages' = stages \o StructuralStages(content)
  /\ UNCHANGED <<content, filename, raised, thrown>>

\* the corpus listing fails (findExistingArticles throws)
ListingFails ==
  /\ vpc = "findExisting"
  /\ UNCHANGED outsideValidator
  /\ Raise("GitHub API error: listing")
  /\ UNCHANGED <<fetched, compared, replies, responses, stages>>

\* the corpus listing arrives
ListingOk ==
  /\ vpc = "findExisting"
  /\ UNCHANGED outsideValidator
  /\ \E files \in Listings :
       /\ corpus' = files
       /\ existingFiles' = MatchingPaths(files, filename)
       /\ IF Len(MatchingPaths(files, filename)) = 0
            THEN /\ ReturnNotDuplicate(DuplicationCheckResult(FALSE, Undefined, NoComparison))
                 /\ idx' = 0
            ELSE /\ vpc' = "fetch"
                 /\ idx' = 1
                 /\ stages' = Append(stages, "fetchExistingArticle")
                 /\ UNCHANGED <<content, filename, raised, result, thrown>>
  /\ UNCHANGED <<fetched, compared, replies, responses>>

\* fetching the candidate's content fails
FetchFails ==
  /\ vpc = "fetch"
  /\ UNCHANGED outsideValidator
  /\ Raise("GitHub API error: fetch")
  /\ fetched' = Append(fetched, existingFiles[idx])
  /\ UNCHANGED <<compared, replies, responses, stages>>

\* the candidate's content arrives; the comparison oracle is called
FetchOk ==
  /\ vpc = "fetch"
  /\ UNCHANGED outsideValidator
  /\ vpc' = "compare"
  /\ fetched' = Append(fetched, existingFiles[idx])
  /\ compared' = Append(compared, existingFiles[idx])
  /\ stages' = Append(stages, "compareWithOpenRouter")
  /\ UNCHANGED <<content, filename, corpus, raised, existingFiles, idx, replies, responses, result,
                 thrown>>

\* the comparison oracle fails (HTTP error or malformed reply)
CompareFails ==
  /\ vpc = "compare"
  /\ UNCHANGED outsideValidator
  /\ \E response \in OracleResponses :
       /\ compareWithOpenRouter(response).threw # ""
       /\ responses' = Append(responses, response)
       /\ Raise(compareWithOpenRouter(response).threw)
  /\ UNCHANGED <<fetched, compared, replies, stages>>

\* the comparison oracle answers: lines 246-271
CompareOk ==
  /\ vpc = "compare"
  /\ UNCHANGED outsideValidator
  /\ \E response \in OracleResponses :
      LET c == compareWithOpenRouter(response).result
      IN
       /\ compareWithOpenRouter(response).threw = ""
       /\ responses' = Append(responses, response)
       /\ replies' = Append(replies, c)
       /\ CASE Decision(c) = "duplicate" ->
                 /\ vpc' = "done"
                 /\ result' = DuplicateVerdict(result, DuplicationCheckResult(TRUE, existingFiles[idx], c))
                 /\ UNCHANGED <<content, filename, raised, idx, stages, thrown>>
            [] Decision(c) = "newInformation" ->
                 /\ ReturnNotDuplicate(DuplicationCheckResult(FALSE, existingFiles[idx], c))
                 /\ UNCHANGED idx
            [] Decision(c) = "continue" /\ idx < Len(existingFiles) ->
                 /\ vpc' = "fetch"
                 /\ idx' = idx + 1
                 /\ stages' = Append(stages, "fetchExistingArticle")
                 /\ UNCHANGED <<content, filename, raised, result, thrown>>
            [] OTHER ->
                 /\ ReturnNotDuplicate(DuplicationCheckResult(FALSE, Undefined, NoComparison))
                 /\ UNCHANGED idx
  /\ UNCHANGED <<corpus, existingFiles, fetched, compared>>

VNext == ListingFails \/ ListingOk \/ FetchFails \/ FetchOk \/ CompareFails \/ CompareOk

-----------------------------------------------------------------------------
(* Claims about validateArticle and checkDuplication (ValidatorSpec) *)

Done == vpc = "done"

DuplicationStages == {"checkDuplication", "findExistingArticles", "fetchExistingArticle", "compareWithOpenRouter"}
StructuralStageNames == {"parseFrontMatter", "validateFrontMatter", "extractSections"}
FactCheckStages == {"extract", "findSources", "verifyFacts"}

\* C1: every verdict returned has isValid exactly when the front matter is valid, the
\* sections are valid, the errors list is empty and the fact check is absent or has
\* confidence >= 0.7 (70 hundredths).
C1_FinalValidity ==
  Done => (result.isValid <=>
             /\ result.frontMatterValid
             /\ result.sectionsValid
             /\ result.errors = <<>>
             /\ (~result.factCheck.defined \/ result.factCheck.confidence >= 70))

\* a verdict whose flags are both true and whose errors list alone decides
C1_Witness ==
  /\ Done
  /\ result.frontMatterValid /\ result.sectionsValid
  /\ result.errors # <<>>
  /\ ~result.isValid

\* C2: a non-duplicate, structurally valid submission has the fact-check pipeline run
\* before the run ends and carries the fact-check verdict.
C2_FactCheckRuns ==
  (/\ Done
   /\ result.duplicationCheck.defined /\ ~result.duplicationCheck.isDuplicate
   /\ result.frontMatterValid /\ result.sectionsValid /\ result.errors = <<>>)
  => (result.factCheck.defined /\ FactCheckStages \subseteq Range(stages))

\* C3: the duplication check precedes every structural stage, and a duplicate ends the
\* run with an invalid verdict, no structural stage, both flags false and exactly the
\* one error naming the matched file.
C3_DuplicateShortCircuit ==
  /\ \A i, j \in 1..Len(stages) :
       (i < j /\ stages[i] \in StructuralStageNames) => stages[j] \notin DuplicationStages
  /\ (replies # <<>> /\ ~Last(replies).hasNewInformation /\ Last(replies).similarityScore > 80)
       => /\ Done
          /\ ~result.isValid
          /\ Range(stages) \cap (StructuralStageNames \cup FactCheckStages) = {}
          /\ ~result.frontMatterValid /\ ~result.sectionsValid
          /\ result.missingRequiredSections = <<>>
          /\ result.errors = <<Msg("Article is a duplicate of existing file: ", Last(compared))>>
          /\ result.duplicationCheck.isDuplicate

C3_Witness ==
  /\ Done
  /\ result.duplicationCheck.isDuplicate
  /\ content = FrontMatterBlock(ValidFM) \o FullBody

\* C4: validateArticle never throws; an error raised by a stage gives an invalid
\* verdict whose errors contain that error's message.
C4_NeverThrows ==
  /\ thrown = ""
  /\ (raised # "") => /\ Done
                      /\ ~result.isValid
                      /\ \E i \in 1..Len(result.errors) : result.errors[i][2] = raised
  /\ (Done /\ raised = "" /\ ~result.duplicationCheck.isDuplicate
        /\ \E i \in 1..Len(content) : content[i].k = "yaml" /\ content[i].y.kind = "throws")
       => /\ ~result.isValid
          /\ \E i \in 1..Len(result.errors) : result.errors[i][2] = "yaml error"

C4_Witness == Done /\ raised = "Failed to parse OpenRouter response"

\* what the claim calls a conclusive comparison
C5_Duplicate(c) == c.similarityScore > 80 /\ ~c.hasNewInformation
C5_Conclusive(c) == C5_Duplicate(c) \/ c.hasNewInformation

\* C5: candidates are examined in listing order; the first conclusive comparison
\* decides (duplicate with that path, or new information with that comparison);
\* anything else moves on; nothing after the conclusive candidate is fetched or compared.
C5_FirstConclusive ==
  /\ fetched = SubSeq(existingFiles, 1, Len(fetched))
  /\ compared = SubSeq(existingFiles, 1, Len(compared))
  /\ Len(replies) <= Len(compared) /\ Len(compared) <= Len(fetched)
  /\ Len(fetched) <= Len(replies) + 1
  /\ \A k \in 1..Len(replies) : k < Len(replies) => ~C5_Conclusive(replies[k])
  /\ (replies # <<>> /\ C5_Conclusive(Last(replies)))
       => /\ Done
          /\ Len(fetched) = Len(replies)
          /\ result.duplicationCheck.isDuplicate = C5_Duplicate(Last(replies))
          /\ result.duplicationCheck.existingFilePath = existingFiles[Len(replies)]
          /\ result.duplicationCheck.comparisonResult = Last(replies)
  /\ (raised = "" /\ replies # <<>> /\ ~C5_Conclusive(Last(replies))
        /\ Len(replies) < Len(existingFiles))
       => ~Done

\* a reply of exactly 0.8 without new information was passed over and the next
\* candidate decided
C5_Witness ==
  /\ Done
  /\ Len(replies) = 2
  /\ replies[1] = Comparison(FALSE, 80)
  /\ result.duplicationCheck.isDuplicate
  /\ result.duplicationCheck.existingFilePath = existingFiles[2]

\* C6: with no corpus entry of the submission's base filename the verdict is "not a
\* duplicate" and nothing is fetched or compared; with candidates of which none is
\* conclusive the verdict is "not a duplicate" with no path and no comparison.
C6_NoCandidateNoOracle ==
  /\ (Done /\ raised = "" /\ \A i \in 1..Len(corpus) : corpus[i].name # <<Last(filename)>>)
       => /\ result.duplicationCheck = DuplicationCheckResult(FALSE, Undefined, NoComparison)
          /\ fetched = <<>> /\ compared = <<>> /\ replies = <<>>
          /\ "fetchExistingArticle" \notin Range(stages)
          /\ "compareWithOpenRouter" \notin Range(stages)
  /\ (Done /\ raised = "" /\ replies # <<>> /\ \A k \in 1..Len(replies) : ~C5_Conclusive(replies[k]))
       => /\ Len(replies) = Len(existingFiles)
          /\ result.duplicationCheck = DuplicationCheckResult(FALSE, Undefined, NoComparison)

C6_Witness ==
  /\ Done /\ raised = ""
  /\ corpus # <<>>
  /\ \A i \in 1..Len(corpus) : corpus[i].name # <<Last(filename)>>
  /\ ~result.duplicationCheck.isDuplicate

-----------------------------------------------------------------------------
(* The job queue (ArticleCheckQueue).  addJob and completeJob hold no await, so each *)
(* call runs from acquireLock to releaseLock in one step.                            *)

LOCK_TIMEOUT == 60000

MaxRequests == 3
MaxJobs == 4
MaxNow == 100000

TickSteps == {30000, 30001}

Requests == 1..MaxRequests

NoJob == [id |-> 0, status |-> "none", prNumber |-> 0, queuePosition |-> 0]

FailedToAcquire == "Failed to acquire lock"
JobNotFound == "Job not found or not currently processing"

\* mutant: the lock never expires
isLocked_NoTimeout(ts, t) == [locked |-> ts # 0, ts |-> ts]

\* isLocked: whether the lock is held at time t, and the lock afterwards (a stale
\* lock is cleared)
isLocked(ts, t) ==
  IF ts = 0 THEN [locked |-> FALSE, ts |-> ts]
  ELSE IF t - ts > LOCK_TIMEOUT THEN [locked |-> FALSE, ts |-> 0]
  ELSE [locked |-> TRUE, ts |-> ts]

acquireLock(ts, t) ==
  IF isLocked(ts, t).locked THEN [ok |-> FALSE, ts |-> isLocked(ts, t).ts]
  ELSE [ok |-> TRUE, ts |-> t]

\* releaseLock
releaseLock == 0

\* mutant: the new job always becomes the current job
addJob_AlwaysCurrent(qs, ts, t, id, prNumber) ==
  LET job == [id |-> id, status |-> "processing", prNumber |-> prNumber, queuePosition |-> 0]
  IN IF ~acquireLock(ts, t).ok
       THEN [threw |-> FailedToAcquire, queueState |-> qs, lockTimestamp |-> acquireLock(ts, t).ts,
             job |-> NoJob]
       ELSE [threw |-> "", queueState |-> [qs EXCEPT !.currentJob = job],
             lockTimestamp |-> releaseLock, job |-> job]

\* addJob: the outcome of a call at time t with a fresh id
addJob(qs, ts, t, id, prNumber) ==
  LET newJob == [id |-> id, status |-> "queued", prNumber |-> prNumber,
                 queuePosition |-> Len(qs.queue)]
      current == [newJob EXCEPT !.status = "processing", !.queuePosition = 0]
  IN IF ~acquireLock(ts, t).ok
       THEN [threw |-> FailedToAcquire, queueState |-> qs, lockTimestamp |-> acquireLock(ts, t).ts,
             job |-> NoJob]
     ELSE IF qs.currentJob = NoJob
       THEN [threw |-> "", queueState |-> [qs EXCEPT !.currentJob = current],
             lockTimestamp |-> releaseLock, job |-> current]
     ELSE [threw |-> "", queueState |-> [qs EXCEPT !.queue = Append(@, newJob)],
           lockTimestamp |-> releaseLock, job |-> newJob]

\* mutant: the most recently queued job is promoted (pop instead of shift)
Promote_Newest(queue) ==
  [currentJob |-> [Last(queue) EXCEPT !.status = "processing", !.queuePosition = 0],
   queue |-> [i \in 1..(Len(queue) - 1) |-> [queue[i] EXCEPT !.queuePosition = i - 1]]]

\* mutant: the jobs left in the queue keep their positions
Promote_KeepPositions(queue) ==
  [currentJob |-> [Head(queue) EXCEPT !.status = "processing", !.queuePosition = 0],
   queue |-> Tail(queue)]

\* lines 118-136: the head of a non-empty queue becomes the current job and the
\* positions of the others are renumbered
Promote(queue) ==
  [currentJob |-> [Head(queue) EXCEPT !.status = "processing", !.queuePosition = 0],
   queue |-> [i \in 1..(Len(queue) - 1) |-> [queue[i + 1] EXCEPT !.queuePosition = i - 1]]]

\* mutant: the lock is not released when the job is not the current one
completeJob_KeepLock(qs, ts, t, jobId, resultStatus) ==
  IF ~acquireLock(ts, t).ok
    THEN [threw |-> FailedToAcquire, queueState |-> qs, lockTimestamp |-> acquireLock(ts, t).ts,
          closed |-> NoJob]
  ELSE IF qs.currentJob = NoJob \/ qs.currentJob.id # jobId
    THEN [threw |-> JobNotFound, queueState |-> qs, lockTimestamp |-> acquireLock(ts, t).ts,
          closed |-> NoJob]
  ELSE [threw |-> "",
        queueState |-> IF Len(qs.queue) > 0 THEN Promote(qs.queue)
                       ELSE [currentJob |-> NoJob, queue |-> <<>>],
        lockTimestamp |-> releaseLock,
        closed |-> [qs.currentJob EXCEPT
                      !.status = IF resultStatus = "success" THEN "completed" ELSE "failed"]]

\* completeJob: the outcome of a call at time t; closed is the job as it was closed
completeJob(qs, ts, t, jobId, resultStatus) ==
  IF ~acquireLock(ts, t).ok
    THEN [threw |-> FailedToAcquire, queueState |-> qs, lockTimestamp |-> acquireLock(ts, t).ts,
          closed |-> NoJob]
  ELSE IF qs.currentJob = NoJob \/ qs.currentJob.id # jobId
    THEN [threw |-> JobNotFound, queueState |-> qs, lockTimestamp |-> releaseLock, closed |-> NoJob]
  ELSE [threw |-> "",
        queueState |-> IF Len(qs.queue) > 0 THEN Promote(qs.queue)
                       ELSE [currentJob |-> NoJob, queue |-> <<>>],
        lockTimestamp |-> releaseLock,
        closed |-> [qs.currentJob EXCEPT
                      !.status = IF resultStatus = "success" THEN "completed" ELSE "failed"]]

\* arg: the prNumber given to addJob, the jobId given to completeJob
NoCall == [op |-> "none", arg |-> 0, threw |-> "", lockBefore |-> 0, at |-> 0]

\* the ids made current by a step from qs to qs2
NewlyActive(qs, qs2) ==
  IF qs2.currentJob # NoJob /\ qs2.currentJob.id # qs.currentJob.id
    THEN <<qs2.currentJob.id>> ELSE <<>>

QInit ==
  /\ queueState = [currentJob |-> NoJob, queue |-> <<>>]
  /\ lockTimestamp = 0
  /\ now = 1
  /\ nextId = 1
  /\ activated = <<>>
  /\ finished = <<>>
  /\ callResult = NoCall
  /\ hpc = [h \in Requests |-> "idle"]
  /\ hjob = [h \in Requests |-> NoJob]

\* the effect of an addJob call on the module state
DoAddJob(prNumber) ==
  LET r == addJob(queueState, lockTimestamp, now, nextId, prNumber)
  IN /\ queueState' = r.queueState
     /\ lockTimestamp' = r.lockTimestamp
     /\ nextId' = IF r.threw = "" THEN nextId + 1 ELSE nextId
     /\ activated' = activated \o NewlyActive(queueState, r.queueState)
     /\ callResult' = [op |-> "addJob", arg |-> prNumber, threw |-> r.threw,
                       lockBefore |-> lockTimestamp, at |-> now]
     /\ UNCHANGED <<now, finished>>

\* the effect of a completeJob call on the module state
DoCompleteJob(jobId, resultStatus) ==
  LET r == completeJob(queueState, lockTimestamp, now, jobId, resultStatus)
  IN /\ queueState' = r.queueState
     /\ lockTimestamp' = r.lockTimestamp
     /\ activated' = activated \o NewlyActive(queueState, r.queueState)
     /\ finished' = IF r.closed = NoJob THEN finished ELSE Append(finished, r.closed)
     /\ callResult' = [op |-> "completeJob", arg |-> jobId, threw |-> r.threw,
                       lockBefore |-> lockTimestamp, at |-> now]
     /\ UNCHANGED <<now, nextId>>

\* time passes
Tick ==
  /\ \E d \in TickSteps : now + d <= MaxNow /\ now' = now + d
  /\ UNCHANGED <<queueState, lockTimestamp, nextId, activated, finished, callResult, hpc, hjob>>
  /\ UNCHANGED outsideQueue

(* handleHttpRequest for an '/articlecheck' comment, one step per await *)

\* the webhook request arrives and asks for the installation token
RequestArrives(h) ==
  /\ hpc[h] = "idle"
  /\ hpc' = [hpc EXCEPT ![h] = "token"]
  /\ UNCHANGED <<queueState, lockTimestamp, now, nextId, activated, finished, callResult, hjob>>
  /\ UNCHANGED outsideQueue

\* getGitHubAppToken throws: the handler answers 500
TokenFails(h) ==
  /\ hpc[h] = "token"
  /\ hpc' = [hpc EXCEPT ![h] = "failed"]
  /\ UNCHANGED <<queueState, lockTimestamp, now, nextId, activated, finished, callResult, hjob>>
  /\ UNCHANGED outsideQueue

\* the token arrives: addJob runs and the initial comment is sent
TokenOk(h) ==
  /\ hpc[h] = "token"
  /\ DoAddJob(h)
  /\ LET r == addJob(queueState, lockTimestamp, now, nextId, h)
     IN /\ hpc' = [hpc EXCEPT ![h] = IF r.threw = "" THEN "postInitial" ELSE "failed"]
        /\ hjob' = [hjob EXCEPT ![h] = r.job]
  /\ UNCHANGED outsideQueue

\* posting the initial comment fails: the handler answers 500
PostInitialFails(h) ==
  /\ hpc[h] = "postInitial"
  /\ hpc' = [hpc EXCEPT ![h] = "failed"]
  /\ UNCHANGED <<queueState, lockTimestamp, now, nextId, activated, finished, callResult, hjob>>
  /\ UNCHANGED outsideQueue

\* the initial comment is posted: the current job's check starts, a queued job's
\* request is answered
PostInitialOk(h) ==
  /\ hpc[h] = "postInitial"
  /\ hpc' = [hpc EXCEPT ![h] = IF hjob[h].status = "processing" THEN "check" ELSE "done"]
  /\ UNCHANGED <<queueState, lockTimestamp, now, nextId, activated, finished, callResult, hjob>>
  /\ UNCHANGED outsideQueue

\* performArticleCheck returns (it never throws): completeJob runs and the final
\* comment is sent
CheckReturns(h) ==
  /\ hpc[h] = "check"
  /\ \E resultStatus \in {"success", "failure"} :
       /\ DoCompleteJob(hjob[h].id, resultStatus)
       /\ hpc' = [hpc EXCEPT ![h] =
                    IF completeJob(queueState, lockTimestamp, now, hjob[h].id, resultStatus).threw = ""
                      THEN "postFinal" ELSE "failed"]
  /\ UNCHANGED hjob
  /\ UNCHANGED outsideQueue

\* posting the final comment fails: the handler answers 500
PostFinalFails(h) ==
  /\ hpc[h] = "postFinal"
  /\ hpc' = [hpc EXCEPT ![h] = "failed"]
  /\ UNCHANGED <<queueState, lockTimestamp, now, nextId, activated, finished, callResult, hjob>>
  /\ UNCHANGED outsideQueue

\* the final comment is posted: the handler answers 200
PostFinalOk(h) ==
  /\ hpc[h] = "postFinal"
  /\ hpc' = [hpc EXCEPT ![h] = "done"]
  /\ UNCHANGED <<queueState, lockTimestamp, now, nextId, activated, finished, callResult, hjob>>
  /\ UNCHANGED outsideQueue

\* addJob and completeJob release the lock before they return, so a handler always
\* finds it free and the reading of the clock has no effect on its steps; the clock
\* advances in QueueSpec
Next ==
  \E h \in Requests :
       \/ RequestArrives(h)
       \/ TokenFails(h)
       \/ TokenOk(h)
       \/ PostInitialFails(h)
       \/ PostInitialOk(h)
       \/ CheckReturns(h)
       \/ PostFinalFails(h)
       \/ PostFinalOk(h)

(* The queue's interface under any sequence of calls, with the clock, and with a   *)
(* holder that took the lock (acquireLock) and has not released it.                *)

\* a caller of addJob
AddJobCall ==
  /\ nextId <= MaxJobs
  /\ DoAddJob(nextId)
  /\ UNCHANGED <<hpc, hjob>>
  /\ UNCHANGED outsideQueue

\* a caller of completeJob, for any job id handed out so far
CompleteJobCall ==
  /\ Len(finished) < MaxJobs
  /\ \E jobId \in 1..(nextId - 1), resultStatus \in {"success", "failure"} :
       DoCompleteJob(jobId, resultStatus)
  /\ UNCHANGED <<hpc, hjob>>
  /\ UNCHANGED outsideQueue

\* a holder takes the lock and stalls before releasing it
StalledHolder ==
  /\ acquireLock(lockTimestamp, now).ok
  /\ lockTimestamp' = acquireLock(lockTimestamp, now).ts
  /\ UNCHANGED <<queueState, now, nextId, activated, finished, callResult, hpc, hjob>>
  /\ UNCHANGED outsideQueue

QNext == Tick \/ AddJobCall \/ CompleteJobCall

LNext == Tick \/ AddJobCall \/ CompleteJobCall \/ StalledHolder

-----------------------------------------------------------------------------
(* Claims about the job queue *)

\* the requests whose article check is in flight
Checking == {h \in Requests : hpc[h] = "check"}

\* a step in which addJob or completeJob was called
IsCall == callResult' # callResult

QueueIds == {queueState.queue[i].id : i \in 1..Len(queueState.queue)}

C7_AddJobStep ==
  (IsCall /\ callResult'.op = "addJob" /\ callResult'.threw = "") =>
     IF queueState.currentJob = NoJob
       THEN /\ queueState'.currentJob.id = nextId
            /\ queueState'.currentJob.status = "processing"
            /\ queueState'.queue = queueState.queue
       ELSE /\ queueState'.currentJob = queueState.currentJob
            /\ Len(queueState'.queue) = Len(queueState.queue) + 1
            /\ SubSeq(queueState'.queue, 1, Len(queueState.queue)) = queueState.queue
            /\ Last(queueState'.queue).id = nextId
            /\ Last(queueState'.queue).status = "queued"

\* C7: under every interleaving of webhook requests at most one article check is in
\* flight, and it is the check of the current job; addJob makes the new job the
\* current job ('processing') only when there is no current job, and otherwise
\* appends it to the queue as 'queued'.
C7_OneActive ==
  /\ [](/\ Cardinality(Checking) <= 1
        /\ \A h \in Checking : /\ queueState.currentJob.id = hjob[h].id
                                /\ queueState.currentJob.status = "processing"
        /\ \A i \in 1..Len(queueState.queue) : queueState.queue[i].status = "queued")
  /\ [][C7_AddJobStep]_vars

\* one request's check is in flight while another request's job waits in the queue
\* and its request has been answered
C7_Witness ==
  \E h1, h2 \in Requests :
    /\ hpc[h1] = "check"
    /\ hpc[h2] = "done"
    /\ hjob[h2].status = "queued"
    /\ hjob[h2].id \in QueueIds

C8_PromoteStep ==
  (IsCall /\ callResult'.op = "completeJob" /\ callResult'.threw = "" /\ QueueIds # {}) =>
     /\ queueState'.currentJob.status = "processing"
     /\ \A id \in QueueIds : queueState'.currentJob.id <= id

\* C8: waiting jobs are promoted in arrival order (job ids are handed out in arrival
\* order): the ids that became current are increasing, no job became current while
\* an earlier one was still queued, and completeJob promotes the job that has waited
\* longest.
C8_Fifo ==
  /\ [](/\ \A i, j \in 1..Len(activated) : i < j => activated[i] < activated[j]
        /\ \A i \in 1..Len(activated) : \A id \in QueueIds : activated[i] < id)
  /\ [][C8_PromoteStep]_vars

\* two jobs were promoted from the queue, one after the other
C8_Witness ==
  /\ Len(finished) >= 2
  /\ Len(activated) >= 3
  /\ QueueIds # {}

HeldFresh == lockTimestamp # 0 /\ now - lockTimestamp <= LOCK_TIMEOUT
HeldStale == lockTimestamp # 0 /\ now - lockTimestamp > LOCK_TIMEOUT

C9_Step ==
  /\ HeldFresh =>
       /\ queueState' = queueState
       /\ lockTimestamp' = lockTimestamp
       /\ IsCall => callResult'.threw = FailedToAcquire
  /\ (HeldStale /\ IsCall) =>
       /\ callResult'.threw # FailedToAcquire
       /\ lockTimestamp' = 0

\* C9: a lock taken and never released frees itself after LOCK_TIMEOUT (60 000 ms):
\* a call of addJob or completeJob more than 60 000 ms after the lock was taken
\* acquires it and proceeds; a call within 60 000 ms fails with 'Failed to acquire
\* lock' and leaves the queue state unchanged.
C9_LockSelfRelease == [][C9_Step]_vars

\* addJob succeeded although a holder had taken the lock and never released it
C9_Witness ==
  /\ callResult.op = "addJob"
  /\ callResult.threw = ""
  /\ callResult.lockBefore # 0
  /\ callResult.at - callResult.lockBefore > LOCK_TIMEOUT

-----------------------------------------------------------------------------
(* The fact checker (FactChecker).  Numbers are exact: <<numerator, denominator>> in *)
(* lowest terms with a positive denominator; <<0, 0>> is a value that is not a       *)
(* number (a missing or non-numeric JSON field).                                     *)

Abs(x) == IF x < 0 THEN -x ELSE x

RECURSIVE GCD(_, _)
GCD(a, b) == IF b = 0 THEN a ELSE GCD(b, a % b)

Rat(n, d) == LET g == GCD(Abs(n), d) IN <<n \div g, d \div g>>

Num(n) == <<n, 1>>

NotANumber == <<0, 0>>

IsNumber(v) == v[2] # 0

Add(a, b) == Rat(a[1] * b[2] + b[1] * a[2], a[2] * b[2])

Mul(a, b) == Rat(a[1] * b[1], a[2] * b[2])

DivInt(a, k) == Rat(a[1], a[2] * k)

Leq(a, b) == a[1] * b[2] <= b[1] * a[2]

Less(a, b) == a[1] * b[2] < b[1] * a[2]

RatMin(a, b) == IF Leq(a, b) THEN a ELSE b

RatMax(a, b) == IF Leq(a, b) THEN b ELSE a

RECURSIVE SumOf(_)
SumOf(values) == IF values = <<>> THEN Num(0) ELSE Add(Head(values), SumOf(Tail(values)))

RECURSIVE Flatten(_)
Flatten(lists) == IF lists = <<>> THEN <<>> ELSE Head(lists) \o Flatten(Tail(lists))

CHUNK_SIZE == 5

maxRetries == 3

minConfidenceThreshold == <<7, 10>>

\* mutant: the statements left over after the full chunks are not verified
Chunks_FullOnly(info) ==
  IF Len(info.keyStatements) > CHUNK_SIZE
    THEN [c \in 1..(Len(info.keyStatements) \div CHUNK_SIZE) |->
            [info EXCEPT !.keyStatements =
               SubSeq(info.keyStatements, (c - 1) * CHUNK_SIZE + 1, c * CHUNK_SIZE)]]
    ELSE <<info>>

\* lines 505-524: the chunks of the extracted information
Chunks(info) ==
  IF Len(info.keyStatements) > CHUNK_SIZE
    THEN [c \in 1..((Len(info.keyStatements) + CHUNK_SIZE - 1) \div CHUNK_SIZE) |->
            [info EXCEPT !.keyStatements =
               SubSeq(info.keyStatements, (c - 1) * CHUNK_SIZE + 1,
                      Min({c * CHUNK_SIZE, Len(info.keyStatements)}))]]
    ELSE <<info>>

\* mutant: the delay does not grow
RetryDelay_Constant(k) == 1000

\* line 590: the delay after failed attempt k, without the jitter
RetryDelay(k) == Min({1000 * (2 ^ k), 8000})

\* mutant: a value above 1 is clamped without being read as a permilleage
normalizeConfidence_NoPercent(value) == RatMin(Num(1), RatMax(Num(0), value))

\* normalizeConfidence: a value above 1 is read as a permilleage, then clamped
normalizeConfidence(value) ==
  IF Less(Num(1), value)
    THEN RatMin(Num(1), RatMax(Num(0), DivInt(value, 100)))
    ELSE RatMin(Num(1), RatMax(Num(0), value))

\* the trimmed statement or reason is empty
Blankish(text) == text \in {"", " "}

\* validateFactCheckResult: whether the parsed reply has the required shape
ValidShape(reply) ==
  /\ reply.isFactual \in {"true", "false"}
  /\ IsNumber(reply.confidence)
  /\ \A i \in 1..Len(reply.verifiedFacts) :
       /\ ~Blankish(reply.verifiedFacts[i].statement)
       /\ IsNumber(reply.verifiedFacts[i].confidence)
  /\ \A i \in 1..Len(reply.unreliableFacts) :
       /\ ~Blankish(reply.unreliableFacts[i].statement)
       /\ ~Blankish(reply.unreliableFacts[i].reason)

\* validateFactCheckResult: the reply after its confidences were normalized in place
Normalized(reply) ==
  [reply EXCEPT
     !.confidence = normalizeConfidence(@),
     !.verifiedFacts = [i \in 1..Len(@) |-> [@[i] EXCEPT !.confidence = normalizeConfidence(@)]]]

\* mutant: no fact is dropped
Retained_Always(fact) == TRUE

\* line 1035: the filter of processVerifiedFacts
Retained(fact) == Leq(minConfidenceThreshold, fact.confidence)

RECURSIVE InsertDesc(_, _)
InsertDesc(sorted, fact) ==
  IF sorted = <<>> THEN <<fact>>
  ELSE IF Less(Head(sorted).confidence, fact.confidence) THEN <<fact>> \o sorted
  ELSE <<Head(sorted)>> \o InsertDesc(Tail(sorted), fact)

\* Array.prototype.sort with (a, b) => b.confidence - a.confidence (stable)
RECURSIVE SortDesc(_)
SortDesc(facts) ==
  IF facts = <<>> THEN <<>>
  ELSE InsertDesc(SortDesc(SubSeq(facts, 1, Len(facts) - 1)), Last(facts))

processVerifiedFacts(facts) == SortDesc(SelectSeq(facts, Retained))

HasReasonAndStatement(fact) == fact.reason # "" /\ fact.statement # ""

processUnreliableFacts(facts) == SelectSeq(facts, HasReasonAndStatement)

\* source.reliability || 0
ReliabilityOrZero(source) == IF IsNumber(source.reliability) THEN source.reliability ELSE Num(0)

Confidences(facts) == [i \in 1..Len(facts) |-> facts[i].confidence]

RECURSIVE MinConfidence(_, _)
MinConfidence(facts, least) ==
  IF facts = <<>> THEN least
  ELSE MinConfidence(Tail(facts), RatMin(least, Head(facts).confidence))

\* mutant: the oracle-reported confidence is kept
calculateOverallConfidence_KeepReported(r) == r.confidence

\* calculateOverallConfidence; a null entry of sourcesUsed makes the reduce throw, and
\* the catch returns min(least fact confidence, 0.5)
calculateOverallConfidence(r) ==
  IF Len(r.verifiedFacts) = 0 THEN Num(0)
  ELSE IF \E i \in 1..Len(r.sourcesUsed) : r.sourcesUsed[i].isNull
    THEN RatMin(MinConfidence(r.verifiedFacts, Num(1)), <<1, 2>>)
  ELSE LET averageConfidence == DivInt(SumOf(Confidences(r.verifiedFacts)), Len(r.verifiedFacts))
           verifiedRatio == Rat(Len(r.verifiedFacts), Len(r.verifiedFacts) + Len(r.unreliableFacts))
           averageSourceReliability ==
             IF Len(r.sourcesUsed) > 0
               THEN DivInt(SumOf([i \in 1..Len(r.sourcesUsed) |->
                                    ReliabilityOrZero(r.sourcesUsed[i])]),
                           Len(r.sourcesUsed))
               ELSE <<1, 2>>
       IN Add(Add(Mul(averageConfidence, <<2, 5>>), Mul(verifiedRatio, <<3, 10>>)),
              Mul(averageSourceReliability, <<3, 10>>))

\* JSON.parse builds fresh objects: every source object of the reply for chunk c gets
\* its own identity (null is one value)
Parsed(reply, c) ==
  [reply EXCEPT !.sourcesUsed =
     [i \in 1..Len(@) |-> IF @[i].isNull THEN @[i] ELSE [@[i] EXCEPT !.ref = <<c, i>>]]]

\* analyzeWithClaude, lines 880-893: the processed result of a valid reply
Processed(reply) ==
  LET r1 == Normalized(reply)
      r2 == [r1 EXCEPT !.verifiedFacts = processVerifiedFacts(@),
                       !.unreliableFacts = processUnreliableFacts(@)]
  IN [r2 EXCEPT !.confidence = calculateOverallConfidence(r2)]

\* Array.from(new Set(list)): the first occurrence of every object
RECURSIVE UniqueObjects(_, _)
UniqueObjects(list, seen) ==
  IF list = <<>> THEN <<>>
  ELSE IF Head(list).ref \in seen THEN UniqueObjects(Tail(list), seen)
  ELSE <<Head(list)>> \o UniqueObjects(Tail(list), seen \union {Head(list).ref})

\* mutant: the result is factual as soon as one chunk is, and the confidence is the
\* last chunk's
Merged_Lenient(results) ==
  [isFactual |-> IF \E i \in 1..Len(results) : results[i].isFactual = "true" THEN "true" ELSE "false",
   verifiedFacts |-> Flatten([i \in 1..Len(results) |-> results[i].verifiedFacts]),
   unreliableFacts |-> Flatten([i \in 1..Len(results) |-> results[i].unreliableFacts]),
   sourcesUsed |-> UniqueObjects(Flatten([i \in 1..Len(results) |-> results[i].sourcesUsed]), {}),
   confidence |-> Last(results).confidence]

\* lines 540-546: the merged result
Merged(results) ==
  [isFactual |-> IF \A i \in 1..Len(results) : results[i].isFactual = "true" THEN "true" ELSE "false",
   verifiedFacts |-> Flatten([i \in 1..Len(results) |-> results[i].verifiedFacts]),
   unreliableFacts |-> Flatten([i \in 1..Len(results) |-> results[i].unreliableFacts]),
   sourcesUsed |-> UniqueObjects(Flatten([i \in 1..Len(results) |-> results[i].sourcesUsed]), {}),
   confidence |-> DivInt(SumOf([i \in 1..Len(results) |-> results[i].confidence]), Len(results))]

(* Inputs of the fact checker *)

MaxStatements == 12

Fact(statement, confidence) == [statement |-> statement, confidence |-> confidence]

Unreliable(statement, reason) == [statement |-> statement, reason |-> reason]

Source(url, reliability) ==
  [ref |-> <<0, 0>>, url |-> url, reliability |-> reliability, isNull |-> FALSE]

NullSource == [ref |-> <<0, 0>>, url |-> "", reliability |-> NotANumber, isNull |-> TRUE]

Reply(isFactual, verifiedFacts, unreliableFacts, sourcesUsed, confidence) ==
  [isFactual |-> isFactual, verifiedFacts |-> verifiedFacts, unreliableFacts |-> unreliableFacts,
   sourcesUsed |-> sourcesUsed, confidence |-> confidence]

\* oracle replies that parse as JSON: well-formed ones, ones with permilleage-style or
\* out-of-range numbers, and ones of the wrong shape
OracleReplies ==
  { Reply("true", <<Fact("s1", <<9, 10>>), Fact("s2", <<4, 5>>)>>, <<>>,
          <<Source("u1", <<4, 5>>)>>, <<9, 10>>),
    Reply("true", <<Fact("s1", <<1, 2>>), Fact("s2", Num(85))>>,
          <<Unreliable("s3", "unsupported")>>, <<>>, Num(85)),
    Reply("true", <<Fact("s1", <<9, 10>>)>>, <<>>, <<Source("u1", Num(85))>>, <<9, 10>>),
    Reply("false", <<Fact("s1", <<7, 10>>)>>, <<Unreliable("s2", "contradicted")>>,
          <<Source("u1", Num(-5))>>, <<1, 2>>),
    Reply("false", <<Fact("s1", <<1, 2>>)>>, <<Unreliable("s2", "unsupported")>>,
          <<Source("u1", <<4, 5>>), Source("u2", NotANumber)>>, Num(150)),
    Reply("true", <<Fact("s1", <<3, 4>>), Fact("s2", <<19, 20>>)>>, <<>>,
          <<Source("u1", <<9, 10>>), Source("u1", <<9, 10>>)>>, Num(-5)),
    Reply("true", <<Fact("s1", <<4, 5>>)>>, <<>>, <<NullSource>>, <<4, 5>>),
    Reply("missing", <<Fact("s1", <<9, 10>>)>>, <<>>, <<>>, <<9, 10>>),
    Reply("true", <<Fact(" ", <<9, 10>>)>>, <<>>, <<>>, <<9, 10>>),
    Reply("true", <<>>, <<Unreliable("s1", "")>>, <<>>, <<1, 2>>),
    Reply("true", <<Fact("s1", <<9, 10>>)>>, <<>>, <<>>, NotANumber) }

\* failures of the request itself (lines 747, 786-806)
OracleErrors == {"Claude API rate limit exceeded", "Claude API request timed out after 20 seconds"}

InvalidShape == "Failed to parse Claude response: Invalid response format from Claude"

\* Math.random() * 1000
Jitters == {0, 999}

NoVerdict == Reply("none", <<>>, <<>>, <<>>, NotANumber)

KeywordExtractionResult(keyStatements, entities, searchQueries, technicalDetails) ==
  [keyStatements |-> keyStatements, entities |-> entities, searchQueries |-> searchQueries,
   technicalDetails |-> technicalDetails]

NoExtractedInfo == KeywordExtractionResult(<<>>, "", "", "")

\* the arguments of verifyFacts: 0..MaxStatements key statements with a context
ExtractedInfos ==
  {KeywordExtractionResult([i \in 1..n |-> i], ctx[1], ctx[2], ctx[3]) :
     n \in 0..MaxStatements,
     ctx \in {<<"acme", "acme breach", "phishing">>, <<"none", "none", "none">>}}

(* verifyFacts, one step per await *)

\* verifyFacts was called: the chunks are built and the first request is sent
FInit ==
  /\ fpc = "request"
  /\ extractedInfo \in ExtractedInfos
  /\ chunks = Chunks(extractedInfo)
  /\ chunkIdx = 1
  /\ attempt = 0
  /\ lastError = ""
  /\ waits = <<>>
  /\ requests = <<1>>
  /\ accepted = <<>>
  /\ chunkResults = <<>>
  /\ verdict = NoVerdict
  /\ fthrown = ""

\* no call of verifyFacts
FIdle ==
  /\ fpc = "idle"
  /\ extractedInfo = NoExtractedInfo
  /\ chunks = <<>>
  /\ chunkIdx = 0
  /\ attempt = 0
  /\ lastError = ""
  /\ waits = <<>>
  /\ requests = <<>>
  /\ accepted = <<>>
  /\ chunkResults = <<>>
  /\ verdict = NoVerdict
  /\ fthrown = ""

\* mutant: a chunk that failed all its attempts is skipped
AttemptFailed_SkipChunk(message) ==
  /\ lastError' = message
  /\ IF attempt < maxRetries - 1
       THEN /\ fpc' = "wait"
            /\ \E jitter \in Jitters : waits' = Append(waits, <<RetryDelay(attempt), jitter>>)
            /\ UNCHANGED <<fthrown, chunkIdx, attempt, requests>>
       ELSE IF chunkIdx < Len(chunks)
         THEN /\ fpc' = "request"
              /\ chunkIdx' = chunkIdx + 1
              /\ attempt' = 0
              /\ requests' = Append(requests, chunkIdx + 1)
              /\ UNCHANGED <<fthrown, waits>>
         ELSE /\ fpc' = "done"
              /\ fthrown' = message
              /\ UNCHANGED <<waits, chunkIdx, attempt, requests>>
  /\ UNCHANGED <<extractedInfo, chunks, accepted, chunkResults, verdict>>

\* lines 586-605: an attempt failed with message; retry after a delay, or give up
\* after the last attempt (verifyFacts rethrows)
AttemptFailed(message) ==
  /\ lastError' = message
  /\ IF attempt < maxRetries - 1
       THEN /\ fpc' = "wait"
            /\ \E jitter \in Jitters : waits' = Append(waits, <<RetryDelay(attempt), jitter>>)
            /\ UNCHANGED fthrown
       ELSE /\ fpc' = "done"
            /\ fthrown' = message
            /\ UNCHANGED waits
  /\ UNCHANGED <<extractedInfo, chunks, chunkIdx, attempt, requests, accepted, chunkResults, verdict>>

\* the request fails (HTTP error, timeout)
RequestFails ==
  /\ fpc = "request"
  /\ \E message \in OracleErrors : AttemptFailed(message)
  /\ UNCHANGED outsideFacts

\* the reply does not pass validateFactCheckResult
ReplyInvalid ==
  /\ fpc = "request"
  /\ \E reply \in OracleReplies : ~ValidShape(reply)
  /\ AttemptFailed(InvalidShape)
  /\ UNCHANGED outsideFacts

\* the delay is over: the next attempt sends its request
RetryAfterWait ==
  /\ fpc = "wait"
  /\ fpc' = "request"
  /\ attempt' = attempt + 1
  /\ requests' = Append(requests, chunkIdx)
  /\ UNCHANGED <<extractedInfo, chunks, chunkIdx, lastError, waits, accepted, chunkResults, verdict,
                 fthrown>>
  /\ UNCHANGED outsideFacts

\* a valid reply arrives: the chunk is verified; the next chunk starts, or the
\* results are merged and returned
ReplyOk ==
  /\ fpc = "request"
  /\ \E reply \in OracleReplies :
       /\ ValidShape(reply)
       /\ accepted' = Append(accepted, reply)
       /\ chunkResults' = Append(chunkResults, Processed(Parsed(reply, chunkIdx)))
       /\ IF chunkIdx < Len(chunks)
            THEN /\ fpc' = "request"
                 /\ chunkIdx' = chunkIdx + 1
                 /\ requests' = Append(requests, chunkIdx + 1)
                 /\ UNCHANGED verdict
            ELSE /\ fpc' = "done"
                 /\ verdict' = Merged(Append(chunkResults, Processed(Parsed(reply, chunkIdx))))
                 /\ UNCHANGED <<chunkIdx, requests>>
  /\ attempt' = 0
  /\ lastError' = ""
  /\ waits' = <<>>
  /\ UNCHANGED <<extractedInfo, chunks, fthrown>>
  /\ UNCHANGED outsideFacts

FNext == RequestFails \/ ReplyInvalid \/ RetryAfterWait \/ ReplyOk

-----------------------------------------------------------------------------
(* Claims about the fact checker *)

\* verifyFacts returned a result
Returned == fpc = "done" /\ fthrown = ""

\* C10: the confidence of every result verifyFacts returns lies in [0,1], for every
\* oracle reply that passes validateFactCheckResult, whatever reliability numbers
\* its sourcesUsed entries carry.
C10_ConfidenceInUnitInterval ==
  Returned => (Leq(Num(0), verdict.confidence) /\ Leq(verdict.confidence, Num(1)))

Mean(values) == DivInt(SumOf(values), Len(values))

\* the verified chunks
Verified == 1..Len(chunkResults)

\* the verified facts of a reply that reach the threshold once normalized
RetainedOf(reply) == SelectSeq(Normalized(reply).verifiedFacts, Retained)

\* 0.4 x mean retained confidence + 0.3 x retained / (retained + unreliable)
\* + 0.3 x mean source reliability (0.5 without sources; a source without a
\* reliability counts 0); 0 when nothing is retained
Blend(reply) ==
  IF Len(RetainedOf(reply)) = 0 THEN Num(0)
  ELSE Add(Add(Mul(<<2, 5>>, Mean(Confidences(RetainedOf(reply)))),
               Mul(<<3, 10>>, Rat(Len(RetainedOf(reply)),
                                  Len(RetainedOf(reply)) + Len(reply.unreliableFacts)))),
           Mul(<<3, 10>>, IF Len(reply.sourcesUsed) = 0 THEN <<1, 2>>
                          ELSE Mean([i \in 1..Len(reply.sourcesUsed) |->
                                       ReliabilityOrZero(reply.sourcesUsed[i])])))

HasNullSource(reply) == \E i \in 1..Len(reply.sourcesUsed) : reply.sourcesUsed[i].isNull

InUnit(v) == Leq(Num(0), v) /\ Leq(v, Num(1))

\* the normalization the statement describes: raw/100 when raw > 1, then clamped
ClampedPercent(raw) ==
  IF Less(raw, Num(0)) THEN Num(0)
  ELSE IF Leq(raw, Num(1)) THEN raw
  ELSE IF Leq(raw, Num(100)) THEN Rat(raw[1], raw[2] * 100)
  ELSE Num(1)

\* the fact of the list with the given statement, as a set (empty when absent)
FactsNamed(facts, statement) ==
  {facts[i] : i \in {j \in 1..Len(facts) : facts[j].statement = statement}}

\* C12: normalization maps v > 1 to v/100 and clamps to [0,1] (85 gives 0.85, 0.85
\* gives 0.85, 150 gives 1, -5 gives 0); it is applied to the oracle's overall
\* confidence and to every verified fact's confidence before the 0.7 threshold is
\* tested: a fact is kept exactly when its normalized confidence reaches 0.7, and is
\* kept with the normalized confidence.
C12_Normalization ==
  /\ normalizeConfidence(Num(85)) = <<17, 20>>
  /\ normalizeConfidence(<<17, 20>>) = <<17, 20>>
  /\ normalizeConfidence(Num(150)) = Num(1)
  /\ normalizeConfidence(Num(-5)) = Num(0)
  /\ \A c \in Verified :
       /\ Normalized(accepted[c]).confidence = ClampedPercent(accepted[c].confidence)
       /\ InUnit(Normalized(accepted[c]).confidence)
       /\ \A i \in 1..Len(accepted[c].verifiedFacts) :
            LET fact == accepted[c].verifiedFacts[i]
                kept == FactsNamed(chunkResults[c].verifiedFacts, fact.statement)
            IN /\ \A k \in kept : k.confidence = ClampedPercent(fact.confidence) /\ InUnit(k.confidence)
               /\ kept # {} <=> Leq(<<7, 10>>, ClampedPercent(fact.confidence))

\* a verified fact the oracle reported at 85 is kept at 0.85
C12_Witness ==
  \E c \in Verified : \E i \in 1..Len(accepted[c].verifiedFacts) :
    /\ accepted[c].verifiedFacts[i].confidence = Num(85)
    /\ \E k \in FactsNamed(chunkResults[c].verifiedFacts, accepted[c].verifiedFacts[i].statement) :
         k.confidence = <<17, 20>>

\* the positions of the verified facts of a reply that are below the threshold
Below(reply) ==
  {i \in 1..Len(reply.verifiedFacts) :
     Less(ClampedPercent(reply.verifiedFacts[i].confidence), <<7, 10>>)}

RECURSIVE CountKept(_)
CountKept(received) ==
  IF received = <<>> THEN 0
  ELSE Len(Head(received).verifiedFacts) - Cardinality(Below(Head(received)))
       + CountKept(Tail(received))

\* C13: every verified fact of the returned result has confidence >= 0.7; the verified
\* facts the oracle reported below the threshold are dropped and appear nowhere: the
\* result holds only the other verified facts, and its unreliable facts are exactly
\* the ones the oracle reported as unreliable.
C13_ThresholdDrops ==
  Returned =>
    /\ \A i \in 1..Len(verdict.verifiedFacts) : Leq(<<7, 10>>, verdict.verifiedFacts[i].confidence)
    /\ Len(verdict.verifiedFacts) = CountKept(accepted)
    /\ verdict.unreliableFacts = Flatten([c \in 1..Len(accepted) |-> accepted[c].unreliableFacts])
    /\ \A c \in Verified : \A i \in Below(accepted[c]) :
         /\ FactsNamed(chunkResults[c].verifiedFacts, accepted[c].verifiedFacts[i].statement) = {}
         /\ FactsNamed(chunkResults[c].unreliableFacts, accepted[c].verifiedFacts[i].statement) = {}

\* a result was returned for a reply with a verified fact below the threshold and
\* one above it
C13_Witness ==
  /\ Returned
  /\ \E c \in Verified : Below(accepted[c]) # {} /\ Len(chunkResults[c].verifiedFacts) > 0

Descending(facts) ==
  \A i, j \in 1..Len(facts) : i < j => Leq(facts[j].confidence, facts[i].confidence)

\* C14: the verified facts of the returned result are ordered by descending
\* confidence, for any number of key statements (several chunks included).
C14_SortedDescending == Returned => Descending(verdict.verifiedFacts)

CeilDiv(n, d) == IF n % d = 0 THEN n \div d ELSE (n \div d) + 1

\* C15: n <= 5 key statements give one chunk holding them all; otherwise there are
\* ceil(n/5) chunks of 5 consecutive statements, the last holding the remainder;
\* the chunks in order concatenate to the statement list, and every chunk carries
\* the unchanged entities, search queries and technical details; 12 statements give
\* chunks of sizes 5, 5, 2.
C15_Chunking ==
  fpc # "idle" =>
    LET n == Len(extractedInfo.keyStatements)
        sizes == [c \in 1..Len(chunks) |-> Len(chunks[c].keyStatements)]
    IN /\ n <= 5 => Len(chunks) = 1
       /\ n > 5 => /\ Len(chunks) = CeilDiv(n, 5)
                   /\ \A c \in 1..(Len(chunks) - 1) : sizes[c] = 5
                   /\ sizes[Len(chunks)] = n - 5 * (Len(chunks) - 1)
                   /\ sizes[Len(chunks)] \in 1..5
       /\ Flatten([c \in 1..Len(chunks) |-> chunks[c].keyStatements]) = extractedInfo.keyStatements
       /\ \A c \in 1..Len(chunks) :
            /\ chunks[c].entities = extractedInfo.entities
            /\ chunks[c].searchQueries = extractedInfo.searchQueries
            /\ chunks[c].technicalDetails = extractedInfo.technicalDetails
       /\ n = 12 => sizes = <<5, 5, 2>>

\* 12 key statements were split and the third chunk is being verified
C15_Witness ==
  /\ Len(extractedInfo.keyStatements) = 12
  /\ extractedInfo.entities = "acme"
  /\ chunkIdx = 3
  /\ Len(chunks[3].keyStatements) = 2

\* C16: the returned result has isFactual equal to the AND of the chunk results,
\* verifiedFacts and unreliableFacts equal to the concatenation of the chunks' lists
\* in chunk order, and confidence equal to the arithmetic mean of the chunk
\* confidences.
C16_Merge ==
  Returned =>
    /\ Len(chunkResults) = Len(chunks)
    /\ (verdict.isFactual = "true") <=> (\A c \in Verified : chunkResults[c].isFactual = "true")
    /\ verdict.isFactual \in {"true", "false"}
    /\ verdict.verifiedFacts = Flatten([c \in Verified |-> chunkResults[c].verifiedFacts])
    /\ verdict.unreliableFacts = Flatten([c \in Verified |-> chunkResults[c].unreliableFacts])
    /\ Mul(verdict.confidence, Num(Len(chunkResults)))
         = SumOf([c \in Verified |-> chunkResults[c].confidence])

\* three chunks were merged, one factual and one not, with different confidences
C16_Witness ==
  /\ Returned
  /\ Len(chunkResults) = 3
  /\ chunkResults[1].isFactual = "true"
  /\ chunkResults[2].isFactual = "false"
  /\ chunkResults[1].confidence # chunkResults[3].confidence
  /\ Len(chunkResults[2].unreliableFacts) > 0

\* C17: sourcesUsed of the returned result is deduplicated by URL: no two of its
\* entries share a url.
C17_UniqueUrls ==
  Returned =>
    \A i, j \in 1..Len(verdict.sourcesUsed) :
      (i < j /\ ~verdict.sourcesUsed[i].isNull /\ ~verdict.sourcesUsed[j].isNull)
        => verdict.sourcesUsed[i].url # verdict.sourcesUsed[j].url

\* the chunks with a request sent and no result yet
Unanswered == {requests[k] : k \in 1..Len(requests)} \ Verified

C18_RequestStep ==
  /\ requests' # requests =>
       /\ Len(requests') = Len(requests) + 1
       /\ Last(requests') = Len(chunkResults') + 1
       /\ Last(requests') \in {Last(requests), Last(requests) + 1}
       /\ fthrown' = ""
  /\ fthrown # "" => (requests' = requests /\ chunkResults' = chunkResults)

\* C18: chunks are verified strictly one after another: a request for chunk N+1 is
\* sent only when chunks 1..N have their results, so at most one chunk is without
\* its result at any time; when a chunk fails after its last attempt verifyFacts
\* fails, returns no result, and no later chunk is started.
C18_Sequential ==
  /\ [](/\ Cardinality(Unanswered) <= 1
        /\ fthrown # "" => /\ fpc = "done"
                           /\ verdict = NoVerdict
                           /\ Unanswered = {Len(chunkResults) + 1}
                           /\ Len(SelectSeq(requests, LAMBDA c : c = Len(chunkResults) + 1))
                                = maxRetries)
  /\ [][C18_RequestStep]_vars

\* the second of three chunks failed after its last attempt and the third was never
\* requested
C18_Witness ==
  /\ fthrown # ""
  /\ Len(chunks) = 3
  /\ Len(chunkResults) = 1
  /\ requests = <<1, 2, 2, 2>>

\* the number of requests sent for chunk c
RequestsFor(c) == Len(SelectSeq(requests, LAMBDA r : r = c))

C19_Step ==
  /\ chunkResults' # chunkResults =>
       (fpc' = "done" \/ Last(requests') = Last(requests) + 1)
  /\ (fpc = "request" /\ fpc' # "request" /\ chunkResults' = chunkResults) =>
       IF RequestsFor(chunkIdx) < 3
         THEN fpc' = "wait" /\ Len(waits') = Len(waits) + 1
         ELSE fpc' = "done" /\ fthrown' = lastError' /\ waits' = waits

\* C19: a chunk verification makes at most 3 oracle attempts and returns on the first
\* success; after failed attempt k (k = 0, 1) it waits min(1000 * 2^k, 8000) ms plus a
\* jitter in [0, 1000) ms before the next attempt; after the third failure it fails
\* with the last error without waiting again.
C19_Retries ==
  /\ [](/\ \A c \in 1..Len(chunks) : RequestsFor(c) <= 3
        /\ Len(waits) <= 2
        /\ Len(waits) >= 1 => waits[1][1] = 1000
        /\ Len(waits) >= 2 => waits[2][1] = 2000
        /\ \A k \in 1..Len(waits) : waits[k][2] >= 0 /\ waits[k][2] < 1000
        /\ fpc = "request" => RequestsFor(chunkIdx) = Len(waits) + 1
        /\ fpc = "wait" => RequestsFor(chunkIdx) = Len(waits)
        /\ fthrown # "" => /\ fthrown = lastError
                           /\ RequestsFor(chunkIdx) = 3
                           /\ Len(waits) = 2)
  /\ [][C19_Step]_vars

\* a chunk failed three times: it waited 1000 ms and 2000 ms plus jitter, and failed
\* with the last error
C19_Witness ==
  /\ fthrown = InvalidShape
  /\ waits = <<<<1000, 0>>, <<2000, 999>>>>
  /\ RequestsFor(chunkIdx) = 3

\* C20: an oracle reply that fails shape validation is fatal to the call and is never
\* retried: after such a reply the chunk verification sends no further request.
C20_InvalidReplyFatal == [][lastError = InvalidShape => requests' = requests]_vars

-----------------------------------------------------------------------------
(* The rate-limited call adapter: KeywordExtractor (unnamed/part_000) *)

REQUESTS_PER_MINUTE == 50

INPUT_TOKENS_PER_MINUTE == 40000

MIN_REQUEST_INTERVAL == 1200

MAX_RETRY_TIME == 60000

INITIAL_RETRY_DELAY == 5000

\* the literal 60000 of resetRateLimitsIfNeeded and of the two window waits
WindowLength == 60000

\* callClaudeWithRetry's default maxRetries
callMaxRetries == 3

\* The field outputTokensThisMinute is left out: extract adds to it and the reset clears it,
\* and nothing but a log line reads it (lines 300-307).

\* the instance's fields and the clock, as one record
This ==
  [now |-> clock,
   lastRequestTime |-> lastRequestTime,
   requestsThisMinute |-> requestsThisMinute,
   inputTokensThisMinute |-> inputTokensThisMinute,
   lastMinuteReset |-> lastMinuteReset]

Install(k) ==
  /\ clock' = k.now
  /\ lastRequestTime' = k.lastRequestTime
  /\ requestsThisMinute' = k.requestsThisMinute
  /\ inputTokensThisMinute' = k.inputTokensThisMinute
  /\ lastMinuteReset' = k.lastMinuteReset

\* await new Promise(resolve => setTimeout(resolve, ms)): the timer fires when it is due,
\* at once for a delay that is not positive
Sleep(k, ms) == [k EXCEPT !.now = @ + Max({ms, 0})]

resetRateLimitsIfNeeded(k) ==
  IF k.now - k.lastMinuteReset >= WindowLength
  THEN [k EXCEPT !.requestsThisMinute = 0,
                 !.inputTokensThisMinute = 0,
                 !.lastMinuteReset = k.now]
  ELSE k

\* the wait for the window to roll over, then the reset
WaitForWindow(k) ==
  resetRateLimitsIfNeeded(Sleep(k, WindowLength - (k.now - k.lastMinuteReset)))

\* mutant: no minimum interval
EnsureInterval_Skip(k) == k

EnsureInterval(k) ==
  LET timeSinceLastRequest == k.now - k.lastRequestTime
  IN IF timeSinceLastRequest < MIN_REQUEST_INTERVAL
     THEN Sleep(k, MIN_REQUEST_INTERVAL - timeSinceLastRequest)
     ELSE k

\* mutant: the request budget never holds a request back
EnsureRequestBudget_Never(k) == k

EnsureRequestBudget(k) ==
  IF k.requestsThisMinute >= REQUESTS_PER_MINUTE THEN WaitForWindow(k) ELSE k

waitForRateLimit(k) == EnsureRequestBudget(EnsureInterval(resetRateLimitsIfNeeded(k)))

\* Math.ceil(text.length / 4)
estimateTokenCount(length) == (length + 3) \div 4

\* delay + Math.random() * (delay * 0.1), with Math.random() * 1000 given as permille
addJitter(delay, permille) == delay + (delay * permille) \div 1000

\* mutant: the delay does not grow
baseDelay_Fixed(k) == INITIAL_RETRY_DELAY

\* INITIAL_RETRY_DELAY * Math.pow(2, attempt)
baseDelay(k) == INITIAL_RETRY_DELAY * (2 ^ k)

\* the waits waitForRateLimit logs for k: the interval's and the request budget's
RateLimitWaits(k) ==
  LET k1 == resetRateLimitsIfNeeded(k)
      k2 == EnsureInterval(k1)
  IN (IF k1.now - k1.lastRequestTime < MIN_REQUEST_INTERVAL
      THEN <<<<"interval", MIN_REQUEST_INTERVAL - (k1.now - k1.lastRequestTime)>>>>
      ELSE <<>>)
     \o (IF k2.requestsThisMinute >= REQUESTS_PER_MINUTE
         THEN <<<<"requests", WindowLength - (k2.now - k2.lastMinuteReset)>>>>
         ELSE <<>>)

\* the wait callClaudeWithRetry logs before its loop
TokenWaits(k, estimate) ==
  IF k.inputTokensThisMinute + estimate > INPUT_TOKENS_PER_MINUTE
  THEN <<<<"tokens", WindowLength - (k.now - k.lastMinuteReset)>>>>
  ELSE <<>>

\* the wait before the loop when the estimate does not fit the window
EnsureTokenBudget(k, estimate) ==
  IF k.inputTokensThisMinute + estimate > INPUT_TOKENS_PER_MINUTE THEN WaitForWindow(k) ELSE k

\* this.lastRequestTime = Date.now(); this.requestsThisMinute++; this.inputTokensThisMinute += ...
Charge(k, estimate) ==
  [k EXCEPT !.lastRequestTime = k.now,
            !.requestsThisMinute = @ + 1,
            !.inputTokensThisMinute = @ + estimate]

MaxRetryTimeError == "Exceeded maximum retry time for Claude API"

MaxRetriesError == "Max retries exceeded calling Claude API"

FetchFailed == "fetch failed"

ApiError(status) ==
  CASE status = 429 -> "Claude API error: 429"
    [] status = 500 -> "Claude API error: 500"

InvalidExtraction == "Failed to parse Claude response: Invalid response format from Claude"

(* Inputs of the adapter *)

\* no call and no idle period starts after MaxClock
MaxClock == 12000

\* the same for a run long enough to fill a window with requests
MaxBurstClock == 65000

\* Math.random() * 1000, rounded down, in such a run
BurstJitter == 80

\* length of the request body in characters
BodyLengths == {3000, 59997}

\* time a fetch takes
Latencies == {0, 600}

\* time between two calls of extract
IdleGaps == {WindowLength}

\* Math.random() * 1000, rounded down
JitterPermille == {0, 80}

\* reply statuses other than 529
Statuses == {200, 429, 500}

\* Date.now() at construction
ConstructedAt == 5 * MIN_REQUEST_INTERVAL

(* Actions of the adapter *)

\* callClaudeWithRetry's locals before a call and after it has returned or thrown
NoLocals ==
  /\ retryAttempt' = 0
  /\ callError' = ""
  /\ startTime' = 0
  /\ estimatedInputTokens' = 0
  /\ backoffs' = <<>>
  /\ held' = <<>>

\* the field initializers of the class, and no call made yet
AInit ==
  /\ apc = "idle"
  /\ clock = ConstructedAt
  /\ lastRequestTime = 0
  /\ requestsThisMinute = 0
  /\ inputTokensThisMinute = 0
  /\ lastMinuteReset = ConstructedAt
  /\ retryAttempt = 0
  /\ callError = ""
  /\ startTime = 0
  /\ estimatedInputTokens = 0
  /\ backoffs = <<>>
  /\ held = <<>>
  /\ outcome = ""

\* extract(content) up to the head of callClaudeWithRetry's loop
Extract(length) ==
  /\ apc = "idle"
  /\ apc' = "loop"
  /\ retryAttempt' = 0
  /\ callError' = ""
  /\ startTime' = clock
  /\ estimatedInputTokens' = estimateTokenCount(length)
  /\ backoffs' = <<>>
  /\ held' = TokenWaits(This, estimateTokenCount(length))
  /\ outcome' = ""
  /\ Install(EnsureTokenBudget(This, estimateTokenCount(length)))
  /\ UNCHANGED outsideAdapter

\* the catch block's (and the 529 branch's) delay and attempt++
BackOff(latency, permille) ==
  /\ clock' = clock + latency + addJitter(baseDelay(retryAttempt), permille)
  /\ backoffs' = Append(backoffs, <<baseDelay(retryAttempt), (baseDelay(retryAttempt) * permille) \div 1000>>)
  /\ retryAttempt' = retryAttempt + 1
  /\ apc' = "loop"

\* one iteration up to the fetch: the retry-time check passes, waitForRateLimit, the counters
SendRequest ==
  /\ apc = "loop"
  /\ retryAttempt < callMaxRetries
  /\ ~(clock - startTime > MAX_RETRY_TIME)
  /\ Install(Charge(waitForRateLimit(This), estimatedInputTokens))
  /\ held' = held \o RateLimitWaits(This)
  /\ apc' = "fetch"
  /\ UNCHANGED <<retryAttempt, callError, startTime, estimatedInputTokens, backoffs, outcome>>
  /\ UNCHANGED outsideAdapter

\* one iteration in which the retry-time check throws into the catch block
RetryTimeExceeded(permille) ==
  /\ apc = "loop"
  /\ retryAttempt < callMaxRetries
  /\ clock - startTime > MAX_RETRY_TIME
  /\ callError' = MaxRetryTimeError
  /\ BackOff(0, permille)
  /\ UNCHANGED <<lastRequestTime, requestsThisMinute, inputTokensThisMinute,
                 lastMinuteReset, startTime, estimatedInputTokens,
                 held, outcome>>
  /\ UNCHANGED outsideAdapter

\* the loop ends: throw lastError || new Error('Max retries exceeded calling Claude API')
RetriesExhausted ==
  /\ apc = "loop"
  /\ ~(retryAttempt < callMaxRetries)
  /\ outcome' = IF callError # "" THEN callError ELSE MaxRetriesError
  /\ apc' = "idle"
  /\ NoLocals
  /\ UNCHANGED <<clock, lastRequestTime, requestsThisMinute, inputTokensThisMinute,
                 lastMinuteReset>>
  /\ UNCHANGED outsideAdapter

\* the reply has status 529
Overloaded(latency, permille) ==
  /\ apc = "fetch"
  /\ BackOff(latency, permille)
  /\ UNCHANGED <<lastRequestTime, requestsThisMinute, inputTokensThisMinute,
                 lastMinuteReset, callError, startTime,
                 estimatedInputTokens, held, outcome>>
  /\ UNCHANGED outsideAdapter

\* fetch rejects
FetchThrows(latency, permille) ==
  /\ apc = "fetch"
  /\ callError' = FetchFailed
  /\ BackOff(latency, permille)
  /\ UNCHANGED <<lastRequestTime, requestsThisMinute, inputTokensThisMinute,
                 lastMinuteReset, startTime, estimatedInputTokens,
                 held, outcome>>
  /\ UNCHANGED outsideAdapter

\* any other reply is returned to extract, which throws on a status that is not ok and
\* otherwise validates the extraction
ResponseReturned(latency, status, valid) ==
  /\ apc = "fetch"
  /\ clock' = clock + latency
  /\ outcome' = IF status # 200 THEN ApiError(status)
                ELSE IF valid THEN "ok" ELSE InvalidExtraction
  /\ apc' = "idle"
  /\ NoLocals
  /\ UNCHANGED <<lastRequestTime, requestsThisMinute, inputTokensThisMinute, lastMinuteReset>>
  /\ UNCHANGED outsideAdapter

\* time passes between two calls
Idle(gap) ==
  /\ apc = "idle"
  /\ clock' = clock + gap
  /\ outcome' = ""
  /\ UNCHANGED <<apc, lastRequestTime, requestsThisMinute, inputTokensThisMinute,
                 lastMinuteReset, retryAttempt, callError, startTime,
                 estimatedInputTokens, backoffs, held>>
  /\ UNCHANGED outsideAdapter

\* the steps of the adapter, no call and no idle period starting after the horizon
AdapterNext(horizon, jitters) ==
  \/ \E length \in BodyLengths : clock <= horizon /\ Extract(length)
  \/ SendRequest
  \/ \E permille \in jitters : RetryTimeExceeded(permille)
  \/ RetriesExhausted
  \/ \E latency \in Latencies, permille \in jitters : Overloaded(latency, permille)
  \/ \E latency \in Latencies, permille \in jitters : FetchThrows(latency, permille)
  \/ \E latency \in Latencies, status \in Statuses, valid \in BOOLEAN :
       ResponseReturned(latency, status, valid)
  \/ \E gap \in IdleGaps : clock <= horizon /\ Idle(gap)

ANext == AdapterNext(MaxClock, JitterPermille)

BNext == AdapterNext(MaxBurstClock, {BurstJitter})

-----------------------------------------------------------------------------
(* The source searcher: SourceSearcher.ts *)

\* Strings that the code inspects character by character (domains, host names) are
\* sequences of one-character strings.

Alphabet ==
  <<"a", "b", "c", "d", "e", "f", "g", "h", "i", "j", "k", "l", "m",
    "n", "o", "p", "q", "r", "s", "t", "u", "v", "w", "x", "y", "z">>

Capitals ==
  <<"A", "B", "C", "D", "E", "F", "G", "H", "I", "J", "K", "L", "M",
    "N", "O", "P", "Q", "R", "S", "T", "U", "V", "W", "X", "Y", "Z">>

Digits == {"0", "1", "2", "3", "4", "5", "6", "7", "8", "9"}

LowerChar(c) ==
  IF \E i \in 1..26 : Capitals[i] = c
  THEN Alphabet[CHOOSE i \in 1..26 : Capitals[i] = c]
  ELSE c

toLowerCase(s) == [i \in 1..Len(s) |-> LowerChar(s[i])]

endsWith(s, suffix) ==
  /\ Len(s) >= Len(suffix)
  /\ SubSeq(s, Len(s) - Len(suffix) + 1, Len(s)) = suffix

\* /^[a-z0-9][a-z0-9.-]*\.[a-z]{2,}$/i.test(domain)
ValidDomainFormat(domain) ==
  LET letters == Range(Alphabet) \cup Range(Capitals)
      alnum == letters \cup Digits
  IN \E p \in 2..(Len(domain) - 2) :
       /\ domain[1] \in alnum
       /\ \A i \in 2..(p - 1) : domain[i] \in alnum \cup {".", "-"}
       /\ domain[p] = "."
       /\ \A i \in (p + 1)..Len(domain) : domain[i] \in letters

reliableDomains ==
  <<<<"r", "e", "u", "t", "e", "r", "s", ".", "c", "o", "m">>,
    <<"b", "l", "o", "o", "m", "b", "e", "r", "g", ".", "c", "o", "m">>,
    <<"t", "e", "c", "h", "c", "r", "u", "n", "c", "h", ".", "c", "o", "m">>,
    <<"z", "d", "n", "e", "t", ".", "c", "o", "m">>,
    <<"w", "i", "r", "e", "d", ".", "c", "o", "m">>,
    <<"s", "e", "c", "u", "r", "i", "t", "y", "w", "e", "e", "k", ".", "c", "o", "m">>,
    <<"b", "l", "e", "e", "p", "i", "n", "g", "c", "o", "m", "p", "u", "t", "e", "r", ".", "c", "o", "m">>,
    <<"t", "h", "e", "r", "e", "g", "i", "s", "t", "e", "r", ".", "c", "o", "m">>,
    <<"t", "h", "e", "h", "a", "c", "k", "e", "r", "n", "e", "w", "s", ".", "c", "o", "m">>,
    <<"k", "r", "e", "b", "s", "o", "n", "s", "e", "c", "u", "r", "i", "t", "y", ".", "c", "o", "m">>,
    <<"c", "y", "b", "e", "r", "s", "c", "o", "o", "p", ".", "c", "o", "m">>,
    <<"d", "a", "r", "k", "r", "e", "a", "d", "i", "n", "g", ".", "c", "o", "m">>,
    <<"t", "h", "r", "e", "a", "t", "p", "o", "s", "t", ".", "c", "o", "m">>,
    <<"c", "o", "i", "n", "t", "e", "l", "e", "g", "r", "a", "p", "h", ".", "c", "o", "m">>,
    <<"c", "o", "i", "n", "d", "e", "s", "k", ".", "c", "o", "m">>,
    <<"b", "i", "t", "c", "o", "i", "n", ".", "c", "o", "m">>,
    <<"b", "i", "t", "c", "o", "i", "n", "m", "a", "g", "a", "z", "i", "n", "e", ".", "c", "o", "m">>,
    <<"c", "i", "p", "h", "e", "r", "t", "r", "a", "c", "e", ".", "c", "o", "m">>,
    <<"c", "h", "a", "i", "n", "a", "l", "y", "s", "i", "s", ".", "c", "o", "m">>,
    <<"e", "l", "l", "i", "p", "t", "i", "c", ".", "c", "o">>>>

mediumReliableDomains ==
  <<<<"m", "e", "d", "i", "u", "m", ".", "c", "o", "m">>,
    <<"g", "i", "t", "h", "u", "b", ".", "c", "o", "m">>,
    <<"g", "i", "t", "l", "a", "b", ".", "c", "o", "m">>,
    <<"w", "i", "k", "i", "p", "e", "d", "i", "a", ".", "o", "r", "g">>,
    <<"r", "e", "d", "d", "i", "t", ".", "c", "o", "m">>>>


maxResultsPerQuery == 5

minReliabilityScore == Rat(3, 5)

\* the domain stage of calculateReliability, for a lowercased domain of valid format
ScoreDomain(score, domain) ==
  IF endsWith(domain, <<".", "g", "o", "v">>) \/ endsWith(domain, <<".", "e", "d", "u">>)
  THEN Add(score, Rat(3, 10))
  ELSE IF endsWith(domain, <<".", "o", "r", "g">>)
  THEN Add(score, Rat(2, 10))
  ELSE IF endsWith(domain, <<".", "c", "o", "m">>) \/ endsWith(domain, <<".", "n", "e", "t">>)
  THEN IF \E i \in 1..Len(reliableDomains) : endsWith(domain, reliableDomains[i])
       THEN Add(score, Rat(25, 100))
       ELSE IF \E i \in 1..Len(mediumReliableDomains) : endsWith(domain, mediumReliableDomains[i])
       THEN Add(score, Rat(15, 100))
       ELSE score
  ELSE score

\* An age is "" (NoAge) or a text "<amount> <unit>s ago", kept as <<amount, unit>>; the
\* pattern /(\d+)\s+(day|month|year)s?\s+ago/i matches the units day, month and year.
NoAge == <<>>

AgeMatches(age) == age # NoAge /\ age[2] \in {"day", "month", "year"}

ageInDays(age) ==
  IF age[2] = "day" THEN age[1]
  ELSE IF age[2] = "month" THEN age[1] * 30
  ELSE age[1] * 365

\* the age stage
ScoreAge(score, age) ==
  IF AgeMatches(age)
  THEN IF ageInDays(age) <= 180 THEN Add(score, Rat(1, 10))
       ELSE IF ageInDays(age) <= 365 THEN Add(score, Rat(5, 100))
       ELSE score
  ELSE score

\* the description stage; a description is kept as its length, 0 for none
ScoreDescription(score, description) ==
  IF description > 200 THEN Add(score, Rat(15, 100))
  ELSE IF description > 100 THEN Add(score, Rat(1, 10))
  ELSE score

\* mutant: no clamping
Clamp_Off(score) == score

\* Math.min(1, Math.max(0, score))
Clamp(score) == RatMin(Rat(1, 1), RatMax(Rat(0, 1), score))

\* the values score takes in calculateReliability(result): after the base, and, unless the
\* domain is missing or malformed, after the domain, age and description stages and the clamp
Stages(r) ==
  LET base == Rat(1, 2)
      domain == toLowerCase(r.domain)
      s1 == ScoreDomain(base, domain)
      s2 == ScoreAge(s1, r.age)
      s3 == ScoreDescription(s2, r.description)
  IN IF r.domain = <<>> \/ ~ValidDomainFormat(domain)
     THEN <<base>>
     ELSE <<base, s1, s2, s3, Clamp(s3)>>

calculateReliability(r) == Last(Stages(r))

(* Inputs of calculateReliability *)

MissingDomain == <<>>

MalformedDomain == <<"u", "n", "d", "e", "r", "_", "s", "c", "o", "r", "e", ".", "c", "o", "m">>

GovDomain == <<"c", "i", "s", "a", ".", "g", "o", "v">>

EduDomain == <<"M", "I", "T", ".", "E", "D", "U">>

OrgDomain == <<"o", "w", "a", "s", "p", ".", "o", "r", "g">>

ReutersDomain == <<"w", "w", "w", ".", "r", "e", "u", "t", "e", "r", "s", ".", "c", "o", "m">>

PlainDomain == <<"e", "x", "a", "m", "p", "l", "e", ".", "c", "o", "m">>

WikipediaDomain == <<"e", "n", ".", "w", "i", "k", "i", "p", "e", "d", "i", "a", ".", "o", "r", "g">>

OtherDomain == <<"e", "x", "a", "m", "p", "l", "e", ".", "i", "o">>

\* registered domains of their own whose names end with the characters of a listed name
NotReutersDomain == <<"n", "o", "t", "r", "e", "u", "t", "e", "r", "s", ".", "c", "o", "m">>

MyGitHubDomain == <<"m", "y", "g", "i", "t", "h", "u", "b", ".", "c", "o", "m">>

Domains ==
  Range(reliableDomains) \cup Range(mediumReliableDomains)
    \cup {MissingDomain, MalformedDomain, GovDomain, EduDomain, OrgDomain, ReutersDomain,
          PlainDomain, WikipediaDomain, OtherDomain, NotReutersDomain, MyGitHubDomain}

Ages ==
  {NoAge, <<2, "week">>, <<30, "day">>, <<180, "day">>, <<181, "day">>, <<365, "day">>,
   <<366, "day">>, <<6, "month">>, <<7, "month">>, <<12, "month">>, <<13, "month">>,
   <<1, "year">>, <<2, "year">>}

DescriptionLengths == {0, 100, 101, 200, 201, 250}

SearchResult(domain, age, description) ==
  [domain |-> domain, age |-> age, description |-> description]

NoResult == SearchResult(<<>>, NoAge, 0)

(* One call of calculateReliability *)

RInit ==
  /\ probe \in {SearchResult(d, a, n) : d \in Domains, a \in Ages, n \in DescriptionLengths}
  /\ scoring = <<>>

Score ==
  /\ scoring = <<>>
  /\ scoring' = Stages(probe)
  /\ UNCHANGED <<probe, spc, queryCount, answers, allSources, seenUrls, contributions,
                 sthrown>>
  /\ UNCHANGED outsideSearcher

RNext == Score

(* findSources *)

\* A url is [host, path]; host <<>> stands for a text that new URL() rejects.
Url(host, path) == [host |-> host, path |-> path]

\* new URL(url).hostname.toLowerCase(), '' when the url does not parse
extractDomainFromUrl(url) == toLowerCase(url.host)

\* one entry of data.web.results
BraveResult(url, domain, age, description) ==
  [url |-> url, domain |-> domain, age |-> age, description |-> description]

\* the Source built from one result
ToSource(r) ==
  LET domain == IF r.domain # <<>> THEN r.domain ELSE extractDomainFromUrl(r.url)
  IN [url |-> r.url,
      snippet |-> r.description,
      domain |-> domain,
      reliability |-> calculateReliability([r EXCEPT !.domain = domain])]

\* mutant: every result of the page is taken
TopResults_All(results) == results

\* data.web.results.slice(0, this.maxResultsPerQuery)
TopResults(results) == SubSeq(results, 1, Min({Len(results), maxResultsPerQuery}))

\* searchBrave(query) for the result list the service returned
searchBrave(results) ==
  LET top == TopResults(results)
      sources == [i \in 1..Len(top) |-> ToSource(top[i])]
  IN SelectSeq(sources, LAMBDA s : Leq(minReliabilityScore, s.reliability))

RECURSIVE Collect(_, _, _)
\* the inner loop of findSources over the sources of one query: <<allSources, seenUrls>>
Collect(sources, all, seen) ==
  IF sources = <<>> THEN <<all, seen>>
  ELSE LET source == Head(sources)
       IN IF source.url \notin seen /\ Leq(minReliabilityScore, source.reliability)
          THEN Collect(Tail(sources), Append(all, source), seen \cup {source.url})
          ELSE Collect(Tail(sources), all, seen)

(* Inputs of findSources *)

MaxQueries == 3

ReutersHost == reliableDomains[1]

GitHubHost == mediumReliableDomains[2]

CisaHost == <<"C", "I", "S", "A", ".", "g", "o", "v">>

\* seven results: a repeated url, two unreliable results, a missing domain, and two
\* reliable results beyond the fifth place
PageA ==
  <<BraveResult(Url(ReutersHost, "/a"), ReutersDomain, <<30, "day">>, 250),
    BraveResult(Url(PlainDomain, "/x"), PlainDomain, NoAge, 0),
    BraveResult(Url(CisaHost, "/advisory"), MissingDomain, <<2, "year">>, 101),
    BraveResult(Url(ReutersHost, "/a"), ReutersDomain, <<30, "day">>, 250),
    BraveResult(Url(OrgDomain, "/p"), OrgDomain, <<1, "year">>, 101),
    BraveResult(Url(PlainDomain, "/y"), PlainDomain, <<30, "day">>, 0),
    BraveResult(Url(GitHubHost, "/r"), GitHubHost, <<6, "month">>, 250)>>

\* a url of PageA again, a new one, and a url that does not parse
PageB ==
  <<BraveResult(Url(GitHubHost, "/r"), GitHubHost, <<6, "month">>, 250),
    BraveResult(Url(ReutersHost, "/a"), ReutersDomain, <<30, "day">>, 250),
    BraveResult(Url(<<>>, "not a url"), MissingDomain, <<30, "day">>, 250)>>

\* six reliable results with six urls
PageC ==
  LET paths == <<"/1", "/2", "/3", "/4", "/5", "/6">>
  IN [i \in 1..6 |-> BraveResult(Url(GovDomain, paths[i]), GovDomain, <<30, "day">>, 0)]

\* urls of PageA with other ages and descriptions: the unreliable one is reliable here
PageD ==
  <<BraveResult(Url(PlainDomain, "/x"), PlainDomain, <<30, "day">>, 250),
    BraveResult(Url(PlainDomain, "/y"), PlainDomain, <<30, "day">>, 0)>>

Pages == {PageA, PageB, PageC, PageD}

SearchError == "Brave Search API error"

(* Actions of findSources *)

\* no call of calculateReliability
RIdle ==
  /\ probe = NoResult
  /\ scoring = <<>>

\* no call of findSources
SIdle ==
  /\ spc = "idle"
  /\ queryCount = 0
  /\ answers = <<>>
  /\ allSources = <<>>
  /\ seenUrls = {}
  /\ contributions = <<>>
  /\ sthrown = ""

\* findSources(searchQueries) up to the first search, or to its return without a query
SInit ==
  /\ queryCount \in 0..MaxQueries
  /\ spc = IF queryCount = 0 THEN "done" ELSE "search"
  /\ answers = <<>>
  /\ allSources = <<>>
  /\ seenUrls = {}
  /\ contributions = <<>>
  /\ sthrown = ""

\* one iteration of the loop over the queries; listed: the answer carries web.results
Iterate(results, listed) ==
  LET sources == IF listed THEN searchBrave(results) ELSE <<>>
      collected == Collect(sources, allSources, seenUrls)
  IN /\ spc = "search"
     /\ answers' = Append(answers, results)
     /\ allSources' = collected[1]
     /\ seenUrls' = collected[2]
     /\ contributions' = Append(contributions, Len(collected[1]) - Len(allSources))
     /\ spc' = IF Len(answers') = queryCount THEN "done" ELSE "search"
     /\ UNCHANGED <<probe, scoring, queryCount, sthrown>>
     /\ UNCHANGED outsideSearcher

\* the service answers with a result list
SearchOk(results) == Iterate(results, TRUE)

\* the service answers without web.results
SearchNoResults == Iterate(<<>>, FALSE)

\* the service answers with an error status, or the fetch rejects: findSources rethrows
SearchFails ==
  /\ spc = "search"
  /\ sthrown' = SearchError
  /\ spc' = "done"
  /\ UNCHANGED <<probe, scoring, queryCount, answers, allSources, seenUrls, contributions>>
  /\ UNCHANGED outsideSearcher

SNext ==
  \/ \E results \in Pages : SearchOk(results)
  \/ SearchNoResults
  \/ SearchFails

-----------------------------------------------------------------------------
(* Claims about the rate-limited call adapter *)

\* a request is sent in this step
Sends == apc = "loop" /\ apc' = "fetch"

\* the call ends in this step
CallEnds == apc # "idle" /\ apc' = "idle"

\* C21: at the statement-extraction call site a reply with status 429 or 5xx is transient:
\* the call backs off and retries, and extract fails with that reply only when the
\* attempt that received it was the last one allowed.
C21_TransientRetried ==
  [][(CallEnds /\ outcome' \in {ApiError(429), ApiError(500)})
       => retryAttempt = callMaxRetries - 1]_vars

\* the window rolls over in this step: the counters restart
RollsOver == lastMinuteReset' # lastMinuteReset

\* a wait of the given kind was logged for the current call
Held(kind) == \E i \in 1..Len(held) : held[i][1] = kind

C22_Step ==
  \* a window is replaced only when it is at least 60 seconds old
  /\ RollsOver => /\ lastMinuteReset' = clock'
                  /\ clock' - lastMinuteReset >= WindowLength
  \* the count is the number of requests sent since the window began
  /\ requestsThisMinute' =
       (IF RollsOver THEN 0 ELSE requestsThisMinute) + (IF Sends THEN 1 ELSE 0)
  \* with 50 requests in the window, the next one waits for the rollover
  /\ (Sends /\ requestsThisMinute >= REQUESTS_PER_MINUTE) => RollsOver

\* C22: the adapter never counts more than 50 requests into one window of at least 60
\* seconds: a request that finds 50 in the current window is sent only after the window
\* has rolled over and the counters are reset.
C22_RequestBudget ==
  /\ [](requestsThisMinute <= REQUESTS_PER_MINUTE)
  /\ [][C22_Step]_vars

\* the 51st request in a row: it was held for the request budget and opened a new window
C22_Witness ==
  /\ apc = "fetch"
  /\ Held("requests")
  /\ requestsThisMinute = 1
  /\ lastMinuteReset = ConstructedAt + WindowLength

\* C23: the estimated input tokens counted into the current window never exceed 40,000:
\* a request, first attempt or retry, whose estimate does not fit waits for the rollover.
C23_TokenBudget == inputTokensThisMinute <= INPUT_TOKENS_PER_MINUTE

C24_Step ==
  /\ Sends => /\ clock' - lastRequestTime >= MIN_REQUEST_INTERVAL
              /\ lastRequestTime' = clock'
  /\ ~Sends => lastRequestTime' = lastRequestTime

\* C24: any two consecutive requests of the adapter, a retry after a failed attempt
\* included, are sent at least 1200 ms apart (lastRequestTime is the time of the last
\* request sent).
C24_Spacing == [][C24_Step]_vars

\* a call made 600 ms after the previous request was sent: its request waited 600 ms
C24_Witness ==
  /\ apc = "fetch"
  /\ held = <<<<"interval", MIN_REQUEST_INTERVAL - 600>>>>
  /\ clock = lastRequestTime
  /\ requestsThisMinute = 2

\* the call has run for more than MAX_RETRY_TIME with attempts left
OutOfTime == apc = "loop" /\ retryAttempt < callMaxRetries /\ clock - startTime > MAX_RETRY_TIME

C25_Step ==
  \* no request beyond the third attempt, and none after more than 60 seconds
  /\ Sends => /\ retryAttempt < callMaxRetries
              /\ clock' - startTime <= MAX_RETRY_TIME
  \* a failed attempt is followed by a delay of 5000 * 2^attempt ms plus a jitter below 10%
  /\ (apc # "idle" /\ apc' = "loop")
       => /\ retryAttempt' = retryAttempt + 1
          /\ Len(backoffs') = retryAttempt'
          /\ Last(backoffs')[1] = INITIAL_RETRY_DELAY * (2 ^ retryAttempt)
          /\ Last(backoffs')[2] >= 0
          /\ 10 * Last(backoffs')[2] < Last(backoffs')[1]
          /\ clock' >= clock + Last(backoffs')[1] + Last(backoffs')[2]
  \* the attempt counter moves in no other step of a call
  /\ (apc' = "fetch") => retryAttempt' = retryAttempt
  \* out of time, the call can only fail
  /\ OutOfTime => /\ ~Sends
                  /\ callError' = MaxRetryTimeError \/ outcome' = MaxRetryTimeError

C26_SharedAdapter ==
  [][Len(requests') > Len(requests) => requestsThisMinute' # requestsThisMinute]_vars

-----------------------------------------------------------------------------
(* Claims about the source searcher *)

RECURSIVE FirstByUrl(_, _)
\* the sources of a list whose url did not occur earlier in it (nor in seen), in order
FirstByUrl(sources, seen) ==
  IF sources = <<>> THEN <<>>
  ELSE IF Head(sources).url \in seen THEN FirstByUrl(Tail(sources), seen)
  ELSE <<Head(sources)>> \o FirstByUrl(Tail(sources), seen \cup {Head(sources).url})

\* the sources of the first five results of a result list that reach reliability 0.6
ReliableTop(results) ==
  LET n == IF Len(results) < 5 THEN Len(results) ELSE 5
      sources == [i \in 1..n |-> ToSource(results[i])]
  IN SelectSeq(sources, LAMBDA s : Leq(Rat(6, 10), s.reliability))

\* C27: the list findSources builds holds no url twice, only sources of reliability at
\* least 0.6, and at most 5 sources from any one query; it is the reliable sources of the
\* first five results of every query, each url at its first occurrence, in order.
C27_FindSources ==
  /\ NoRepeat([i \in 1..Len(allSources) |-> allSources[i].url])
  /\ \A i \in 1..Len(allSources) : Leq(Rat(6, 10), allSources[i].reliability)
  /\ \A q \in 1..Len(contributions) : contributions[q] <= 5
  /\ Len(contributions) = Len(answers)
  /\ Len(allSources) = SumOf([q \in 1..Len(contributions) |-> Num(contributions[q])])[1]
  /\ allSources = FirstByUrl(Flatten([q \in 1..Len(answers) |-> ReliableTop(answers[q])]), {})

\* two queries: the first answer repeats a url and has two unreliable results among its
\* first five, the second has six reliable results
C27_Witness ==
  /\ spc = "done"
  /\ sthrown = ""
  /\ answers = <<PageA, PageC>>
  /\ contributions = <<3, 5>>

\* the age bonus of the statement: 0.1 up to 180 days, 0.05 up to 365 days
C28_AgeBonus(age) ==
  IF ~AgeMatches(age) THEN Num(0)
  ELSE IF ageInDays(age) <= 180 THEN Rat(10, 100)
  ELSE IF ageInDays(age) <= 365 THEN Rat(5, 100)
  ELSE Num(0)

\* the snippet bonus of the statement: 0.15 above 200 characters, 0.1 above 100
C28_SnippetBonus(length) ==
  IF length > 200 THEN Rat(15, 100)
  ELSE IF length > 100 THEN Rat(10, 100)
  ELSE Num(0)

WellFormed(domain) == domain # <<>> /\ ValidDomainFormat(toLowerCase(domain))

C29_AllowListBonus ==
  scoring # <<>> =>
    /\ probe.domain \in Range(reliableDomains) => scoring[2] = Add(Rat(1, 2), Rat(25, 100))
    /\ probe.domain \in Range(mediumReliableDomains) => scoring[2] = Add(Rat(1, 2), Rat(15, 100))

-----------------------------------------------------------------------------
(* FrontMatterValidator.validateFrontMatter (validators/FrontMatterValidator.ts), the same
   code as ArticleValidator.validateFrontMatter *)

\* A record keeps of each field what the checks look at: the date's characters (<<>> for
\* none), whether target-entities, attack-types and title are truthy, whether entity-types
\* is a non-empty array ("array") and whether loss is a number ("number").
LongDate == GoodDate \o <<"d">>

FrontMatterRecords ==
  {FrontMatter(date, te, et, at, title, loss) :
     date \in {GoodDate, BadDate, LongDate, <<>>},
     te \in BOOLEAN,
     et \in {"array", "empty array", "string", "undefined"},
     at \in BOOLEAN,
     title \in BOOLEAN,
     loss \in {"number", "string", "undefined"}}

NotValidated == [isValid |-> FALSE, errors |-> <<Msg("not validated", "")>>]

\* no call of validateFrontMatter
MIdle ==
  /\ frontMatterArg = YamlNull
  /\ frontMatterResult = NotValidated

MInit ==
  /\ frontMatterArg \in FrontMatterRecords
  /\ frontMatterResult = NotValidated

Validate ==
  /\ frontMatterResult = NotValidated
  /\ frontMatterArg.kind = "object"
  /\ frontMatterResult' = validateFrontMatter(frontMatterArg)
  /\ UNCHANGED frontMatterArg
  /\ UNCHANGED outsideFrontMatter

MNext == Validate

(* Claims about validateFrontMatter *)

\* the fields of a record that violate their rule
C30_Violated(fm) ==
  (IF fm.date # GoodDate THEN {"date"} ELSE {})
    \cup (IF ~fm.targetEntities THEN {"target-entities"} ELSE {})
    \cup (IF fm.entityTypes # "array" THEN {"entity-types"} ELSE {})
    \cup (IF ~fm.attackTypes THEN {"attack-types"} ELSE {})
    \cup (IF ~fm.title THEN {"title"} ELSE {})
    \cup (IF fm.loss # "number" THEN {"loss"} ELSE {})

C30_ErrorOf(field) ==
  CASE field = "date" -> Msg("Date must be in YYYY-MM-DD format", "")
    [] field = "target-entities" -> Msg("target-entities is required", "")
    [] field = "entity-types" -> Msg("entity-types must be a non-empty array", "")
    [] field = "attack-types" -> Msg("attack-types is required", "")
    [] field = "title" -> Msg("title is required", "")
    [] field = "loss" -> Msg("loss must be a number", "")

\* C30: validateFrontMatter reports exactly the errors of the violated fields, each once:
\* a record violating one field yields that field's error alone and isValid = false, and
\* a conforming record yields no errors and isValid = true.
C30_ExactErrors ==
  frontMatterResult # NotValidated =>
    /\ Range(frontMatterResult.errors) = {C30_ErrorOf(f) : f \in C30_Violated(frontMatterArg)}
    /\ Len(frontMatterResult.errors) = Cardinality(C30_Violated(frontMatterArg))
    /\ frontMatterResult.isValid = (C30_Violated(frontMatterArg) = {})

\* a record whose only fault is a loss that is not a number
C30_Witness ==
  /\ frontMatterArg = FrontMatter(GoodDate, TRUE, "array", TRUE, TRUE, "string")
  /\ frontMatterResult = [isValid |-> FALSE, errors |-> <<Msg("loss must be a number", "")>>]

-----------------------------------------------------------------------------
(* Claims about structural validation (ValidatorSpec) *)

\* the run went through structural validation and returned
Structural == Done /\ "extractSections" \in Range(stages)

\* Object.keys(sections)
SectionNames(secs) == {secs[i].name : i \in 1..Len(secs)}

\* C31: missingRequiredSections is the set difference between the required sections and
\* the section names extractSections found, also when a required heading has an empty body.
C31_MissingIsDifference ==
  Structural =>
    Range(result.missingRequiredSections)
      = Range(REQUIRED_SECTIONS) \ SectionNames(extractSections(content).sections)

HasError(text) == \E i \in 1..Len(result.errors) : result.errors[i][1] = text

\* the document has no level-2 heading
NoHeading(doc) == \A i \in 1..Len(doc) : doc[i].k # "h2"

\* the cases the statement names: no leading block, a block yaml.parse rejects, no heading
C32_NamedCases ==
  Structural =>
    /\ thrown = ""
    /\ ClosingDelim(content) = 0 =>
         /\ parseFrontMatter(content).frontMatter = YamlNull
         /\ HasError("Front matter not found or invalid format")
    /\ (ClosingDelim(content) # 0
          /\ YamlParse(SubSeq(content, 2, ClosingDelim(content) - 1)).kind = "throws") =>
         /\ parseFrontMatter(content).frontMatter = YamlNull
         /\ HasError("Failed to parse front matter: ")
    /\ NoHeading(content) =>
         /\ extractSections(content).sections = <<>>
         /\ HasError("No sections found in the article")

\* C32: structural validation never throws; a document without a leading front matter
\* block or with front matter that cannot be parsed yields no record plus an error, a
\* document without a level-2 heading yields no sections plus an error, and every failure
\* (no record, no section) is reported through the errors sequence.
C32_FailuresReported ==
  /\ C32_NamedCases
  /\ Structural =>
       /\ ~Truthy(parseFrontMatter(content).frontMatter) =>
            \E i \in 1..Len(result.errors) : result.errors[i] \in Range(parseFrontMatter(content).errors)
       /\ extractSections(content).sections = <<>> => HasError("No sections found in the article")

\* the reply the statement accepts: an HTTP success whose text, fenced or not, is a JSON
\* object with a boolean hasNewInformation, an array differences, a numeric similarityScore
C33_Expected(response) ==
  /\ response.ok
  /\ response.choices
  /\ response.json.kind = "object"
  /\ response.json.hasNewInformation.t = "boolean"
  /\ response.json.differences.t = "array"
  /\ response.json.similarityScore.t = "number"

\* C33: an oracle reply is accepted only when it is the expected JSON object; any other
\* reply, or an HTTP error, makes the comparison fail with an error that ends the run; and
\* the oracle is called once for each candidate examined, never again after a failure.
C33_DefensiveParse ==
  /\ Len(replies) <= Len(responses) /\ Len(responses) <= Len(replies) + 1
  /\ \A k \in 1..Len(replies) :
       /\ C33_Expected(responses[k])
       /\ replies[k] = Comparison(responses[k].json.hasNewInformation.v = 1,
                                  responses[k].json.similarityScore.v)
  /\ Len(responses) > Len(replies) =>
       /\ ~C33_Expected(Last(responses))
       /\ Done /\ raised \in ComparisonErrors
       /\ Last(result.errors) = Msg("Internal validation error: ", raised)
       /\ ~result.isValid
  /\ Len(responses) = Len(replies) => raised \notin ComparisonErrors
  /\ compared = SubSeq(existingFiles, 1, Len(compared))
  /\ NoRepeat(compared)
  /\ Len(responses) <= Len(compared) /\ Len(compared) <= Len(responses) + 1
  /\ Done => Len(responses) = Len(compared)

\* the second candidate's reply is a JSON object whose similarityScore is a string
C33_Witness ==
  /\ Done
  /\ Len(replies) = 1 /\ Len(responses) = 2 /\ Len(compared) = 2
  /\ responses[2] = OracleResponse(TRUE, TRUE, FALSE, Json("object", JBool(FALSE), JArr, JStr))
  /\ raised = ParseErrorText

\* C34: every failed verdict carries a reason: when validateArticle returns isValid = false,
\* its errors list or its missingRequiredSections list is not empty.
C34_FailedHasReason ==
  (Done /\ ~result.isValid) =>
    (Len(result.errors) > 0 \/ Len(result.missingRequiredSections) > 0)

-----------------------------------------------------------------------------
(* Claims about the webhook handlers' progress (HandlerFairSpec) *)

\* completeJob closed the job with this id
Closed(id) == \E i \in 1..Len(finished) : finished[i].id = id

\* C35: a job addJob returned as 'queued' is processed once the jobs ahead of it are
\* complete: from the moment it is the current job, its check runs and completeJob closes
\* it as 'completed' or 'failed'.
C35_QueuedProcessed ==
  \A h \in Requests :
    (hjob[h].status = "queued" /\ queueState.currentJob.id = hjob[h].id) ~> Closed(hjob[h].id)

\* C36: a job that became the current job leaves the current slot: completeJob is called
\* for it even when a step of its handler between addJob and completeJob fails.  Stated
\* for the jobs addJob made current at once, whose handler goes on to run the check.
C36_SlotReleased ==
  \A h \in Requests :
    (hjob[h].status = "processing" /\ queueState.currentJob.id = hjob[h].id)
      ~> (queueState.currentJob.id # hjob[h].id)

-----------------------------------------------------------------------------
(* Claims about the queue's interface (QueueSpec, LockSpec) *)

\* C37: after any sequence of addJob and completeJob calls the queue state is consistent:
\* the current job, if any, is 'processing' at position 0; every queued job is 'queued' at
\* the position of its index; no id is both current and queued, or queued twice; and the
\* queue is non-empty only while there is a current job.
C37_Consistent ==
  /\ queueState.currentJob # NoJob =>
       /\ queueState.currentJob.status = "processing"
       /\ queueState.currentJob.queuePosition = 0
  /\ \A i \in 1..Len(queueState.queue) :
       /\ queueState.queue[i].status = "queued"
       /\ queueState.queue[i].queuePosition = i - 1
  /\ queueState.currentJob.id \notin QueueIds
  /\ \A i, j \in 1..Len(queueState.queue) :
       i # j => queueState.queue[i].id # queueState.queue[j].id
  /\ queueState.queue # <<>> => queueState.currentJob # NoJob

\* completeJob promoted a job while two others stayed queued behind it
C37_Witness ==
  /\ callResult.op = "completeJob" /\ callResult.threw = ""
  /\ queueState.currentJob.id = 2
  /\ Len(queueState.queue) = 2
  /\ queueState.queue[1].id = 3 /\ queueState.queue[1].queuePosition = 0

C38_Step ==
  IsCall =>
    /\ lockTimestamp' = 0
    /\ (callResult'.op = "completeJob" /\ callResult'.arg # queueState.currentJob.id) =>
         /\ callResult'.threw = JobNotFound
         /\ queueState' = queueState
         /\ finished' = finished
    /\ (callResult'.op = "completeJob" /\ callResult'.arg = queueState.currentJob.id) =>
         callResult'.threw = ""

\* C38: completeJob called with an id that is not the current job's (or with no current
\* job) fails with 'Job not found or not currently processing', leaves the current job and
\* the queue as they were, and releases the lock; the lock is free after every addJob and
\* completeJob call, whether the call returned or threw.
C38_WrongIdRejected == [][C38_Step]_vars

\* completeJob was refused for a queued job's id while another job was current
C38_Witness ==
  /\ callResult.op = "completeJob"
  /\ callResult.threw = JobNotFound
  /\ callResult.arg \in QueueIds
  /\ queueState.currentJob # NoJob
  /\ lockTimestamp = 0

-----------------------------------------------------------------------------
(* performArticleCheck (queue.ts), one step per awaited call.  File names are sequences *)
(* of characters.                                                                       *)

MaxFiles == 3

PullRequestFile(name, status) == [filename |-> name, status |-> status]

\* files of a pull request: markdown files added and modified, markdown files removed
\* and renamed, and added files whose names only resemble a markdown file's
PullRequestFiles ==
  { PullRequestFile(<<"a", ".", "m", "d">>, "added"),
    PullRequestFile(<<"d", "/", "b", ".", "m", "d">>, "modified"),
    PullRequestFile(<<"c", ".", "m", "d">>, "removed"),
    PullRequestFile(<<"e", ".", "m", "d">>, "renamed"),
    PullRequestFile(<<"f", ".", "m", "d", "x">>, "added"),
    PullRequestFile(<<"g", "m", "d">>, "modified"),
    PullRequestFile(<<"h", ".", "p", "n", "g">>, "added") }

PullRequests == {l \in DistinctSeqs(PullRequestFiles, MaxFiles) : NoRepeat(l)}

\* files.filter(file => file.filename.endsWith('.md') &&
\*                      (file.status === 'added' || file.status === 'modified'))
findMarkdownFiles(files) ==
  SelectSeq(files, LAMBDA file : /\ endsWith(file.filename, <<".", "m", "d">>)
                                 /\ (file.status = "added" \/ file.status = "modified"))

NoValidation == [defined |-> FALSE, isValid |-> FALSE, isDuplicate |-> FALSE]

\* the fields of validateArticle's result that performArticleCheck branches on
ValidationResult(isValid, isDuplicate) ==
  [defined |-> TRUE, isValid |-> isValid, isDuplicate |-> isDuplicate]

ValidationResults ==
  {ValidationResult(TRUE, FALSE), ValidationResult(FALSE, FALSE), ValidationResult(FALSE, TRUE)}

NoJobResult == [status |-> "none", message |-> Msg("", "")]

JobResult(status, message) == [status |-> status, message |-> message]

NoMarkdown == Msg("No markdown files found in this PR.", "")
MultipleMarkdown == Msg("Multiple markdown files found in this PR.", "")
ValidationFailed == Msg("### Article Validation Failed", "")
ValidationSuccessful == Msg("### Article Validation Successful!", "")

FetchFilesError == "Failed to fetch PR files"
FetchContentError == "Failed to fetch file content"
ValidatorError == "validator error"

\* the catch block of performArticleCheck
CheckCaught(message) ==
  [jobResult |-> JobResult("failure", Msg("An error occurred while checking the article: ", message)),
   thrown |-> ""]

\* mutant: several markdown files are accepted and the first is checked
Selected_First(markdownFiles) ==
  IF Len(markdownFiles) = 0 THEN [ok |-> FALSE, message |-> NoMarkdown]
  ELSE [ok |-> TRUE, message |-> Msg("", "")]

\* lines 173-191: the outcome of the two length tests on markdownFiles
Selected(markdownFiles) ==
  IF Len(markdownFiles) = 0 THEN [ok |-> FALSE, message |-> NoMarkdown]
  ELSE IF Len(markdownFiles) > 1 THEN [ok |-> FALSE, message |-> MultipleMarkdown]
  ELSE [ok |-> TRUE, message |-> Msg("", "")]

\* lines 200-323: the JobResult built from validateArticle's result
Rendered(v) ==
  IF ~v.isValid THEN JobResult("failure", ValidationFailed)
  ELSE JobResult("success", ValidationSuccessful)

\* no call of performArticleCheck
PIdle ==
  /\ ppc = "idle"
  /\ prFiles = <<>>
  /\ pcalls = <<>>
  /\ praised = ""
  /\ validation = NoValidation
  /\ jobResult = NoJobResult
  /\ pthrown = ""

\* performArticleCheck is called and awaits fetchPRFiles
PInit ==
  /\ ppc = "fetchFiles"
  /\ prFiles \in PullRequests
  /\ pcalls = <<"fetchPRFiles">>
  /\ praised = ""
  /\ validation = NoValidation
  /\ jobResult = NoJobResult
  /\ pthrown = ""

\* an awaited call raised: the catch block answers
CheckRaises(message) ==
  /\ ppc' = "done"
  /\ praised' = message
  /\ jobResult' = CheckCaught(message).jobResult
  /\ pthrown' = CheckCaught(message).thrown
  /\ UNCHANGED <<prFiles, pcalls, validation>>
  /\ UNCHANGED outsideCheck

\* fetchPRFiles throws
FetchFilesFails ==
  /\ ppc = "fetchFiles"
  /\ CheckRaises(FetchFilesError)

\* the file list arrives
FetchFilesOk ==
  /\ ppc = "fetchFiles"
  /\ IF Selected(findMarkdownFiles(prFiles)).ok
       THEN /\ ppc' = "fetchContent"
            /\ pcalls' = Append(pcalls, "fetchFileContent")
            /\ UNCHANGED jobResult
       ELSE /\ ppc' = "done"
            /\ jobResult' = JobResult("failure", Selected(findMarkdownFiles(prFiles)).message)
            /\ UNCHANGED pcalls
  /\ UNCHANGED <<prFiles, praised, validation, pthrown>>
  /\ UNCHANGED outsideCheck

\* fetchFileContent throws
FetchContentFails ==
  /\ ppc = "fetchContent"
  /\ CheckRaises(FetchContentError)

\* the content arrives: validateArticle is called
FetchContentOk ==
  /\ ppc = "fetchContent"
  /\ ppc' = "validate"
  /\ pcalls' = Append(pcalls, "validateArticle")
  /\ UNCHANGED <<prFiles, praised, validation, jobResult, pthrown>>
  /\ UNCHANGED outsideCheck

\* the validator, or the rendering of its result, raises
ValidateFails ==
  /\ ppc = "validate"
  /\ CheckRaises(ValidatorError)

\* validateArticle returns
ValidateReturns ==
  /\ ppc = "validate"
  /\ \E v \in ValidationResults :
       /\ validation' = v
       /\ jobResult' = Rendered(v)
  /\ ppc' = "done"
  /\ UNCHANGED <<prFiles, pcalls, praised, pthrown>>
  /\ UNCHANGED outsideCheck

PNext ==
  \/ FetchFilesFails \/ FetchFilesOk
  \/ FetchContentFails \/ FetchContentOk
  \/ ValidateFails \/ ValidateReturns

-----------------------------------------------------------------------------
(* Claims about performArticleCheck (CheckSpec) *)

\* an added or modified file whose name ends in ".md"
C39_Article(file) ==
  /\ file.status \in {"added", "modified"}
  /\ Len(file.filename) >= 3
  /\ file.filename[Len(file.filename) - 2] = "."
  /\ file.filename[Len(file.filename) - 1] = "m"
  /\ file.filename[Len(file.filename)] = "d"

C39_Articles == {i \in 1..Len(prFiles) : C39_Article(prFiles[i])}

\* C39: performArticleCheck never throws; it returns 'success' exactly when the pull
\* request holds exactly one added or modified .md file and validateArticle reports
\* isValid = true for it; with no such file or several it returns 'failure' without
\* fetching content or calling the validator; an error raised while fetching or validating
\* becomes a 'failure' result carrying the error's message.
C39_CheckResult ==
  /\ pthrown = ""
  /\ ppc = "done" =>
       /\ jobResult.status \in {"success", "failure"}
       /\ jobResult.status = "success" <=>
            (Cardinality(C39_Articles) = 1 /\ validation.defined /\ validation.isValid)
       /\ (praised # FetchFilesError /\ Cardinality(C39_Articles) # 1) =>
            /\ jobResult.status = "failure"
            /\ pcalls = <<"fetchPRFiles">>
       /\ praised # "" =>
            /\ jobResult.status = "failure"
            /\ jobResult.message = Msg("An error occurred while checking the article: ", praised)
  /\ "validateArticle" \in Range(pcalls) => Cardinality(C39_Articles) = 1
  /\ "fetchFileContent" \in Range(pcalls) => Cardinality(C39_Articles) = 1

\* two markdown files among three: the check refuses without fetching content
C39_Witness ==
  /\ ppc = "done"
  /\ Len(prFiles) = 3
  /\ Cardinality(C39_Articles) = 2
  /\ jobResult = JobResult("failure", MultipleMarkdown)
  /\ pcalls = <<"fetchPRFiles">>

-----------------------------------------------------------------------------
(* Claims about the allow-lists of calculateReliability (ReliabilitySpec) *)

\* the domain is a name of the list or a subdomain of one
C40_ListedOrSubdomain(domain, list) ==
  \E i \in 1..Len(list) : domain = list[i] \/ endsWith(domain, <<".">> \o list[i])

\* C40: the allow-list bonus (+0.25 or +0.15) goes only to a listed domain or a subdomain
\* of one; another registered domain whose name merely ends with the characters of a
\* listed name gets no allow-list bonus.
C40_BonusOnlyForListed ==
  (scoring # <<>> /\ WellFormed(probe.domain)) =>
    (scoring[2] \in {Add(Rat(1, 2), Rat(25, 100)), Add(Rat(1, 2), Rat(15, 100))} =>
       \/ C40_ListedOrSubdomain(toLowerCase(probe.domain), reliableDomains)
       \/ C40_ListedOrSubdomain(toLowerCase(probe.domain), mediumReliableDomains))

-----------------------------------------------------------------------------
(* Specifications *)

\* the validator at rest
VIdle ==
  /\ vpc = "done"
  /\ content = <<>>
  /\ filename = <<>>
  /\ corpus = <<>>
  /\ raised = ""
  /\ existingFiles = <<>>
  /\ idx = 0
  /\ fetched = <<>>
  /\ compared = <<>>
  /\ replies = <<>>
  /\ responses = <<>>
  /\ result = InitialResult
  /\ stages = <<>>
  /\ thrown = ""

ValidatorInit == VInit /\ QInit /\ FIdle /\ AInit /\ RIdle /\ SIdle /\ MIdle /\ PIdle

\* one run of validateArticle
ValidatorSpec == ValidatorInit /\ [][VNext]_vars

Init == QInit /\ VIdle /\ FIdle /\ AInit /\ RIdle /\ SIdle /\ MIdle /\ PIdle

\* the webhook handlers over the job queue
Spec == Init /\ [][Next]_vars

\* the steps a handler in progress takes by itself: each awaited call settles
HandlerSteps(h) ==
  \/ TokenFails(h) \/ TokenOk(h)
  \/ PostInitialFails(h) \/ PostInitialOk(h)
  \/ CheckReturns(h)
  \/ PostFinalFails(h) \/ PostFinalOk(h)

\* the webhook handlers when every awaited call terminates
HandlerFairSpec == Spec /\ \A h \in Requests : WF_vars(HandlerSteps(h))

\* the job queue under any sequence of calls
QueueSpec == Init /\ [][QNext]_vars

\* the job queue under any sequence of calls, with a holder that stalls
LockSpec == Init /\ [][LNext]_vars

FactInit == FInit /\ VIdle /\ QInit /\ AInit /\ RIdle /\ SIdle /\ MIdle /\ PIdle

\* one call of verifyFacts
FactSpec == FactInit /\ [][FNext]_vars

AdapterInit == AInit /\ VIdle /\ QInit /\ FIdle /\ RIdle /\ SIdle /\ MIdle /\ PIdle

\* any sequence of extract calls on one KeywordExtractor
AdapterSpec == AdapterInit /\ [][ANext]_vars

ReliabilityInit == RInit /\ SIdle /\ VIdle /\ QInit /\ FIdle /\ AInit /\ MIdle /\ PIdle

\* one call of calculateReliability
ReliabilitySpec == ReliabilityInit /\ [][RNext]_vars

SearcherInit == SInit /\ RIdle /\ VIdle /\ QInit /\ FIdle /\ AInit /\ MIdle /\ PIdle

\* one call of findSources
SearcherSpec == SearcherInit /\ [][SNext]_vars

FrontMatterInit == MInit /\ VIdle /\ QInit /\ FIdle /\ AInit /\ RIdle /\ SIdle /\ PIdle

\* one call of FrontMatterValidator.validateFrontMatter
FrontMatterSpec == FrontMatterInit /\ [][MNext]_vars

CheckInit == PInit /\ VIdle /\ QInit /\ FIdle /\ AInit /\ RIdle /\ SIdle /\ MIdle

\* one call of performArticleCheck
CheckSpec == CheckInit /\ [][PNext]_vars

\* the steps callClaudeWithRetry takes by itself
CallSteps == SendRequest \/ RetriesExhausted \/ \E permille \in JitterPermille : RetryTimeExceeded(permille)

\* the fetch in flight settles: a reply arrives or the fetch rejects
FetchSettles ==
  \/ \E latency \in Latencies, permille \in JitterPermille :
       Overloaded(latency, permille) \/ FetchThrows(latency, permille)
  \/ \E latency \in Latencies, status \in Statuses, valid \in BOOLEAN :
       ResponseReturned(latency, status, valid)

\* a call in progress keeps running, and every fetch settles
AdapterFairSpec == AdapterSpec /\ WF_vars(CallSteps) /\ WF_vars(FetchSettles)

\* the same over a longer time with one jitter value
BurstSpec == AdapterInit /\ [][BNext]_vars

====
